---- MODULE Spec2Model ----
(***************************************************************************)
(* Discrete-event kernel of the airport departure simulation: the SimPy    *)
(* event heap driven by SimulationEngine.run, the MonitoredResource        *)
(* stations, the area occupancy tracker, the arrival process, the position *)
(* sampler and the per-group PassengerProcess.run generator.               *)
(*                                                                         *)
(* Virtual time is in whole seconds.  A group is identified in the model   *)
(* by its index in the sorted arrival list; group_id is a field of it.     *)
(*                                                                         *)
(* Specifications: Spec runs the event loop on groups arriving from        *)
(* instant 0 on; SpecModes on groups of every pair of modes; SpecHorizon   *)
(* on groups of several slots arriving around the horizon; SpecGeneration  *)
(* is the loop of ArrivalGenerator.generate_arrivals_for_slot for one      *)
(* slot; SpecSampling is TruncatedTDistribution.sample; SpecRun is         *)
(* SimulationEngine.run from the construction of the configuration to the  *)
(* returned result, the event loop included; SpecReplay is two runs on one *)
(* seed, up to the generated groups; SpecFactory is PassengerGroupFactory, *)
(* its construction and create_group; SpecLive is Spec with a fair event   *)
(* loop; SpecProbe runs the event loop with the configured sampling        *)
(* interval, 0 included.                                                   *)
(***************************************************************************)
EXTENDS Integers, Sequences, FiniteSets, TLC

\* ---------------------------------------------------------------- bounds
NumGroups == 3
MaxGap == 1
MaxService == 2
MaxCapacity == 2
MaxGroupSize == 2
SampleInterval == 2548
SlotDeparture == 1500
DepartureStep == 600
HorizonLead == 20
LateGap == 12
MaxPax == 4
MaxMulti == 3
MaxSlotGroups == 5
MaxLower == 2
MaxWidth == 1
MaxSampleSize == 3
MaxSlots == 2
MaxSlotPax == 2
SlotMinutes == 2
MaxBefore == 2
MaxSeed == 1
MaxGeneratorState == 2
MaxCreated == 2
MaxSnapshots == 4

\* ------------------------------------------------------ program constants
OnlineDelay == 5
SecurityDelay == 10
HorizonBuffer == 3600
MinTime == 1
URGENT == 0
NORMAL == 1
NoTime == 0 - 1

Stations == {"checkin_kiosk", "checkin_counter", "baggage_counter", "tag_kiosk", "drop_point"}

Areas == {"checkin_zone", "baggage_counter_zone", "tag_zone", "drop_zone", "security_front"}

CheckinTypes == {"online", "kiosk", "counter"}

BaggageDropTypes == {"none", "counter", "self"}

Stages == {"checkin", "baggage_counter", "tag", "drop"}

\* the (checkin_type, baggage_drop_type) pairs the generated groups are drawn from
ModeChoices ==
    {<<"kiosk", "counter">>, <<"counter", "none">>, <<"online", "self">>,
     <<"online", "none">>}

ServiceTimes == MinTime..MaxService

G == 1..NumGroups

VARIABLES
    now,                    \* env.now
    queue,                  \* env._queue: the scheduled events
    eid,                    \* env._eid: next event sequence number
    stopped,                \* env.run(until=...) has returned
    simulation_end,         \* the horizon passed to env.run
    capacity,               \* station -> capacity
    groups,                 \* index -> PassengerGroup record
    pc,                     \* index -> suspension point of the group's generator
    next_arrival,           \* arrival_process: index of the next group to spawn
    last_arrival_time,      \* arrival_process: local last_arrival_time
    users,                  \* station -> resource.users (requests in service)
    put_queue,              \* station -> resource.queue (requests waiting)
    current_queue,          \* station -> MonitoredResource._current_queue
    queue_history,          \* station -> MonitoredResource.queue_history
    groups_in_area,         \* area -> AirportResources._groups_in_area[area]
    area_occupancy_history, \* AirportResources.area_occupancy_history
    position_snapshots,     \* SimulationEngine.position_snapshots
    active_groups,          \* SimulationEngine._active_groups (insertion order)
    completed_groups,       \* PassengerProcess.completed_groups
    log,                    \* history: station operations in execution order
    snap_waiting,           \* history: station -> waiting requests at each snapshot
    last_event,             \* history: the event executed by the latest step
    arrival_gen,            \* ArrivalGenerator.generate_arrivals_for_slot: its
                            \* slot, its locals and the factory's size parameters
    engine,                 \* SimulationEngine: its config, the position of
                            \* run() and the SimulationResult it returned
    arrival_dist,           \* TruncatedTDistribution.sample: bounds and locals
    random_state,           \* the global generators of numpy.random and random
    last_draw               \* history: the np.random.normal value drawn by the
                            \* latest step

vars == <<now, queue, eid, stopped, simulation_end, capacity, groups, pc,
          next_arrival, last_arrival_time, users, put_queue, current_queue,
          queue_history, groups_in_area, area_occupancy_history,
          position_snapshots, active_groups, completed_groups, log,
          snap_waiting, last_event, arrival_gen, engine, arrival_dist,
          random_state, last_draw>>

\* ---------------------------------------------------------------- helpers
Min(a, b) == IF a <= b THEN a ELSE b

Range(s) == {s[i] : i \in DOMAIN s}

RECURSIVE SumSizes(_)
SumSizes(s) == IF s = <<>> THEN 0 ELSE Head(s)[2] + SumSizes(Tail(s))

Remove(s, x) == SelectSeq(s, LAMBDA y : y /= x)

RemoveGid(s, gid) == SelectSeq(s, LAMBDA p : p[1] /= gid)

\* The mutable state as one record, so that a handler is a composition of
\* the functions it calls.
World ==
    [now |-> now, queue |-> queue, eid |-> eid, groups |-> groups, pc |-> pc,
     next_arrival |-> next_arrival, last_arrival_time |-> last_arrival_time,
     users |-> users, put_queue |-> put_queue, current_queue |-> current_queue,
     queue_history |-> queue_history, groups_in_area |-> groups_in_area,
     area_occupancy_history |-> area_occupancy_history,
     position_snapshots |-> position_snapshots, active_groups |-> active_groups,
     completed_groups |-> completed_groups, log |-> log,
     snap_waiting |-> snap_waiting]

Commit(w) ==
    /\ now' = w.now
    /\ queue' = w.queue
    /\ eid' = w.eid
    /\ groups' = w.groups
    /\ pc' = w.pc
    /\ next_arrival' = w.next_arrival
    /\ last_arrival_time' = w.last_arrival_time
    /\ users' = w.users
    /\ put_queue' = w.put_queue
    /\ current_queue' = w.current_queue
    /\ queue_history' = w.queue_history
    /\ groups_in_area' = w.groups_in_area
    /\ area_occupancy_history' = w.area_occupancy_history
    /\ position_snapshots' = w.position_snapshots
    /\ active_groups' = w.active_groups
    /\ completed_groups' = w.completed_groups
    /\ log' = w.log
    /\ snap_waiting' = w.snap_waiting
    /\ UNCHANGED <<stopped, simulation_end, capacity, arrival_gen, engine,
                   arrival_dist, random_state>>

\* ------------------------------------------------------------ event heap
\* Before with ties of time and priority won by the latest scheduled event
BeforeLatestFirst(e, f) ==
    \/ e.time < f.time
    \/ e.time = f.time /\ e.prio < f.prio
    \/ e.time = f.time /\ e.prio = f.prio /\ e.eid > f.eid

\* heap order of env._queue entries (time, priority, eid, event)
Before(e, f) ==
    \/ e.time < f.time
    \/ e.time = f.time /\ e.prio < f.prio
    \/ e.time = f.time /\ e.prio = f.prio /\ e.eid < f.eid

NextEvent == CHOOSE e \in queue : \A f \in queue \ {e} : Before(e, f)

\* Schedule taking the delay for the absolute time of the event
ScheduleAbsolute(w, delay, prio, kind, proc, st) ==
    [w EXCEPT !.queue = @ \cup {[time |-> delay, prio |-> prio,
                                 eid |-> w.eid, kind |-> kind, proc |-> proc,
                                 st |-> st]},
              !.eid = @ + 1]

\* env.schedule(event, priority, delay)
Schedule(w, delay, prio, kind, proc, st) ==
    [w EXCEPT !.queue = @ \cup {[time |-> w.now + delay, prio |-> prio,
                                 eid |-> w.eid, kind |-> kind, proc |-> proc,
                                 st |-> st]},
              !.eid = @ + 1]

\* env.step: pop the smallest entry and advance the clock to its time
Pop == [World EXCEPT !.now = NextEvent.time, !.queue = @ \ {NextEvent}]

\* history of the operations on the stations: what was done, by which group,
\* when, and the station's in-service and waiting counts at that point
Log(w, op, s, g) ==
    [w EXCEPT !.log = Append(@, [op |-> op, st |-> s, g |-> g, time |-> w.now,
                                 busy |-> IF s \in Stations THEN Len(w.users[s]) ELSE 0,
                                 waiting |-> IF s \in Stations
                                             THEN Len(w.put_queue[s]) ELSE 0])]

\* ------------------------------------------------------- MonitoredResource
\* TriggerPut without the test for a free server
TriggerPutNoCapacity(w, s) ==
    IF w.put_queue[s] /= <<>>
    THEN LET head == Head(w.put_queue[s])
             w1 == [w EXCEPT !.users[s] = Append(@, head),
                             !.put_queue[s] = Tail(@)]
         IN  Log(Schedule(w1, 0, NORMAL, "grant", head, s), "grant", s, head)
    ELSE w

\* TriggerPut admitting the most recent waiter instead of the head
TriggerPutLast(w, s) ==
    IF w.put_queue[s] /= <<>> /\ Len(w.users[s]) < capacity[s]
    THEN LET n == Len(w.put_queue[s])
             last == w.put_queue[s][n]
             w1 == [w EXCEPT !.users[s] = Append(@, last),
                             !.put_queue[s] = SubSeq(@, 1, n - 1)]
         IN  Log(Schedule(w1, 0, NORMAL, "grant", last, s), "grant", s, last)
    ELSE w

\* simpy BaseResource._trigger_put with Resource._do_put, which returns None:
\* only the head of the put queue is tried, and it is granted (appended to
\* users, its event scheduled) iff a server is free.
TriggerPut(w, s) ==
    IF w.put_queue[s] /= <<>> /\ Len(w.users[s]) < capacity[s]
    THEN LET head == Head(w.put_queue[s])
             w1 == [w EXCEPT !.users[s] = Append(@, head),
                             !.put_queue[s] = Tail(@)]
         IN  Log(Schedule(w1, 0, NORMAL, "grant", head, s), "grant", s, head)
    ELSE w

\* SimpyRequest that only queues the request, leaving admission to the next release
SimpyRequestNoTrigger(w, s, g) ==
    Log([w EXCEPT !.put_queue[s] = Append(@, g)], "enqueue", s, g)

\* simpy Resource.request(): the Request joins the put queue, then _trigger_put
SimpyRequest(w, s, g) ==
    LET w1 == TriggerPut([w EXCEPT !.put_queue[s] = Append(@, g)], s)
    IN  IF \E i \in DOMAIN w1.put_queue[s] : w1.put_queue[s][i] = g
        THEN Log(w1, "enqueue", s, g)
        ELSE w1

\* SimpyRelease that frees the server without scheduling the Release event
SimpyReleaseNoEvent(w, s, g) == [w EXCEPT !.users[s] = Remove(@, g)]

\* SimpyRelease whose Release event is processed one second later
SimpyReleaseLate(w, s, g) ==
    Schedule([w EXCEPT !.users[s] = Remove(@, g)], 1, NORMAL, "release", 0, s)

\* simpy Resource.release(): the request leaves users at once; the Release
\* event is scheduled and, when processed, runs _trigger_put
SimpyRelease(w, s, g) ==
    Schedule([w EXCEPT !.users[s] = Remove(@, g)], 0, NORMAL, "release", 0, s)

RecordSnapshot(w, s) ==
    LET queue_groups == Len(w.put_queue[s])
        queue_pax == IF queue_groups > 0
                     THEN SumSizes(SubSeq(w.current_queue[s], 1,
                                          Min(queue_groups, Len(w.current_queue[s]))))
                     ELSE 0
    IN  [w EXCEPT !.queue_history[s] =
                      Append(@, [time |-> w.now, queue_length |-> queue_groups,
                                 queue_pax_count |-> queue_pax,
                                 in_service |-> Len(w.users[s])]),
                  !.snap_waiting[s] = Append(@, w.put_queue[s])]

Request(w, s, g) ==
    LET w1 == [w EXCEPT !.current_queue[s] =
                   Append(@, <<w.groups[g].group_id, w.groups[g].group_size>>)]
        w2 == RecordSnapshot(Log(w1, "request", s, g), s)
    IN  SimpyRequest(w2, s, g)

Release(w, s, g) ==
    LET w1 == [w EXCEPT !.current_queue[s] = RemoveGid(@, w.groups[g].group_id)]
        w2 == SimpyRelease(w1, s, g)
    IN  RecordSnapshot(Log(w2, "release", s, g), s)

\* -------------------------------------------------------- AirportResources
RecordAreaOccupancy(w, a) ==
    [w EXCEPT !.area_occupancy_history =
         Append(@, [time |-> w.now, area_name |-> a,
                    group_count |-> Len(w.groups_in_area[a]),
                    pax_count |-> SumSizes(w.groups_in_area[a])])]

EnterArea(w, a, g) ==
    IF a \in Areas
    THEN RecordAreaOccupancy(
             [w EXCEPT !.groups_in_area[a] =
                  Append(@, <<w.groups[g].group_id, w.groups[g].group_size>>)], a)
    ELSE w

\* LeaveArea recording the occupancy without removing the group
LeaveAreaKeeps(w, a, g) ==
    IF a \in Areas THEN RecordAreaOccupancy(w, a) ELSE w

LeaveArea(w, a, g) ==
    IF a \in Areas
    THEN RecordAreaOccupancy(
             [w EXCEPT !.groups_in_area[a] = RemoveGid(@, w.groups[g].group_id)], a)
    ELSE w

\* --------------------------------------------------------- PassengerProcess
\* StationOf with the check-in counter also handling the combined baggage stage
StationOfCounterBaggage(grp, stg) ==
    CASE stg = "checkin" ->
             IF grp.checkin_type = "kiosk" THEN "checkin_kiosk" ELSE "checkin_counter"
      [] stg = "baggage_counter" -> "checkin_counter"
      [] stg = "tag" -> "tag_kiosk"
      [] stg = "drop" -> "drop_point"

StationOf(grp, stg) ==
    CASE stg = "checkin" ->
             IF grp.checkin_type = "kiosk" THEN "checkin_kiosk" ELSE "checkin_counter"
      [] stg = "baggage_counter" -> "baggage_counter"
      [] stg = "tag" -> "tag_kiosk"
      [] stg = "drop" -> "drop_point"

\* AreaOf with the tag stage entered in the zone of the drop point
AreaOfTagInDropZone(stg) ==
    CASE stg = "checkin" -> "checkin_zone"
      [] stg = "baggage_counter" -> "baggage_counter_zone"
      [] stg = "tag" -> "drop_zone"
      [] stg = "drop" -> "drop_zone"

AreaOf(stg) ==
    CASE stg = "checkin" -> "checkin_zone"
      [] stg = "baggage_counter" -> "baggage_counter_zone"
      [] stg = "tag" -> "tag_zone"
      [] stg = "drop" -> "drop_zone"

QueueEnterField ==
    [checkin |-> "checkin_queue_enter",
     baggage_counter |-> "baggage_counter_queue_enter",
     tag |-> "tag_queue_enter", drop |-> "drop_queue_enter"]

StartField ==
    [checkin |-> "checkin_start", baggage_counter |-> "baggage_counter_start",
     tag |-> "tag_start", drop |-> "drop_start"]

EndField ==
    [checkin |-> "checkin_end", baggage_counter |-> "baggage_counter_end",
     tag |-> "tag_end", drop |-> "drop_end"]

UpdatePosition(w, g, node) == [w EXCEPT !.groups[g].current_node = node]

\* StartStage that forgets to stamp the stage's queue_enter
StartStageNoStamp(w, g, stg) ==
    LET s == StationOf(w.groups[g], stg)
        w1 == UpdatePosition(w, g, s)
        w2 == EnterArea(w1, AreaOf(stg), g)
        w4 == Request(w2, s, g)
    IN  [w4 EXCEPT !.pc[g] = [loc |-> "wait", stage |-> stg]]

\* one station visit up to its `yield req`
StartStage(w, g, stg) ==
    LET s == StationOf(w.groups[g], stg)
        w1 == UpdatePosition(w, g, s)
        w2 == EnterArea(w1, AreaOf(stg), g)
        w3 == [w2 EXCEPT !.groups[g][QueueEnterField[stg]] = w2.now]
        w4 == Request(w3, s, g)
    IN  [w4 EXCEPT !.pc[g] = [loc |-> "wait", stage |-> stg]]

\* the security gate block up to its `yield self.env.timeout(10)`
StartSecurity(w, g) ==
    LET w1 == UpdatePosition(w, g, "security_gate")
        w2 == EnterArea(w1, "security_front", g)
        w3 == Schedule(w2, SecurityDelay, NORMAL, "timeout_group", g, "")
    IN  [w3 EXCEPT !.pc[g] = [loc |-> "security", stage |-> ""]]

\* the baggage block, entered after the check-in block
StartBaggage(w, g) ==
    CASE w.groups[g].baggage_drop_type = "counter" -> StartStage(w, g, "baggage_counter")
      [] w.groups[g].baggage_drop_type = "self" -> StartStage(w, g, "tag")
      [] OTHER -> StartSecurity(w, g)

\* what follows the release of a stage's station
AfterStage(w, g, stg) ==
    CASE stg = "checkin" -> StartBaggage(w, g)
      [] stg = "tag" -> StartStage(w, g, "drop")
      [] OTHER -> StartSecurity(w, g)

\* ------------------------------------------------------------ arrival_process
Spawn(w, i) ==
    [Schedule(w, 0, URGENT, "init_group", i, "")
         EXCEPT !.pc[i] = [loc |-> "spawned", stage |-> ""]]

\* ArrivalLoop sleeping for the arrival time itself instead of the gap since
\* the previous arrival
RECURSIVE ArrivalLoopWholeTime(_, _)
ArrivalLoopWholeTime(w, i) ==
    IF i > NumGroups
    THEN Schedule([w EXCEPT !.next_arrival = i], 0, NORMAL, "proc_end", 0, "")
    ELSE LET wait_time == w.groups[i].arrival_time
         IN  IF wait_time > 0
             THEN Schedule([w EXCEPT !.next_arrival = i], wait_time, NORMAL,
                           "timeout_arrival", 0, "")
             ELSE ArrivalLoopWholeTime([Spawn(w, i) EXCEPT
                                           !.last_arrival_time = w.groups[i].arrival_time],
                                       i + 1)

\* the for loop of arrival_process from its i-th group on, up to its next yield
RECURSIVE ArrivalLoop(_, _)
ArrivalLoop(w, i) ==
    IF i > NumGroups
    THEN Schedule([w EXCEPT !.next_arrival = i], 0, NORMAL, "proc_end", 0, "")
    ELSE LET wait_time == w.groups[i].arrival_time - w.last_arrival_time
         IN  IF wait_time > 0
             THEN Schedule([w EXCEPT !.next_arrival = i], wait_time, NORMAL,
                           "timeout_arrival", 0, "")
             ELSE ArrivalLoop([Spawn(w, i) EXCEPT
                                  !.last_arrival_time = w.groups[i].arrival_time],
                              i + 1)

\* resumption after `yield self.env.timeout(wait_time)`
ArrivalResume(w) ==
    LET i == w.next_arrival
    IN  ArrivalLoop([Spawn(w, i) EXCEPT
                        !.last_arrival_time = w.groups[i].arrival_time], i + 1)

\* ---------------------------------------------------------- _position_sampler
RECURSIVE PositionsOf(_, _)
PositionsOf(w, act) ==
    IF act = <<>> THEN <<>>
    ELSE <<[group_id |-> w.groups[Head(act)].group_id,
            group_size |-> w.groups[Head(act)].group_size,
            node |-> w.groups[Head(act)].current_node]>>
         \o PositionsOf(w, Tail(act))

\* PositionSampler listing the completed groups along with the active ones
PositionSamplerKeepsCompleted(w) ==
    IF w.now < simulation_end
    THEN Schedule([w EXCEPT !.position_snapshots =
                       Append(@, [time |-> w.now,
                                  groups |-> PositionsOf(w, w.active_groups
                                                            \o w.completed_groups)])],
                  engine.sample_interval_sec, NORMAL, "timeout_sampler", 0, "")
    ELSE Schedule(w, 0, NORMAL, "proc_end", 0, "")

\* one pass of the while loop of _position_sampler, up to its yield
PositionSampler(w) ==
    IF w.now < simulation_end
    THEN Schedule([w EXCEPT !.position_snapshots =
                       Append(@, [time |-> w.now,
                                  groups |-> PositionsOf(w, w.active_groups)])],
                  engine.sample_interval_sec, NORMAL, "timeout_sampler", 0, "")
    ELSE Schedule(w, 0, NORMAL, "proc_end", 0, "")

\* -------------------------------------------------------------------- Init
\* generate_all_arrivals has returned before the event loop is set up
GenerationOver ==
    [pax_count |-> 0, remaining_pax |-> 0, groups |-> <<>>, multi_min |-> 2,
     multi_max |-> 4, p_single |-> 70, pc |-> "returned"]

\* run() is inside env.run: the engine is built and its groups generated
EngineRunning == [pc |-> "env_run", sample_interval_sec |-> SampleInterval]

\* no call of TruncatedTDistribution.sample is under way
SamplerIdle == [pc |-> "idle"]

\* the states of numpy's global generator and of Python's random module;
\* outside SpecReplay the draws are choices and the states stay as they are
GeneratorsUnused == [np |-> 0, py |-> 0]

\* no service time is sampled by the step
NoDraw == [proc |-> 0, value |-> 0]

RECURSIVE ArrivalAt(_, _)
ArrivalAt(gap, i) == IF i = 0 THEN 0 ELSE ArrivalAt(gap, i - 1) + gap[i]

NewGroup(i, size, arrival, ct, bt) ==
    [group_id |-> i - 1, group_size |-> size,
     arrival_time |-> arrival, departure_time |-> SlotDeparture,
     checkin_type |-> ct, has_baggage |-> (bt /= "none"), baggage_drop_type |-> bt,
     checkin_queue_enter |-> NoTime, checkin_start |-> NoTime, checkin_end |-> NoTime,
     baggage_counter_queue_enter |-> NoTime, baggage_counter_start |-> NoTime,
     baggage_counter_end |-> NoTime,
     tag_queue_enter |-> NoTime, tag_start |-> NoTime, tag_end |-> NoTime,
     drop_queue_enter |-> NoTime, drop_start |-> NoTime, drop_end |-> NoTime,
     security_arrival |-> NoTime, current_node |-> "source"]

\* SimulationEngine.run up to env.run: a sorted group list, fresh resources,
\* the arrival process, the position sampler and the `until` event scheduled
Init ==
    /\ \E gap \in [G -> 0..MaxGap], mode \in [G -> ModeChoices] :
           /\ gap[1] = 0
           /\ groups = [i \in G |-> NewGroup(i, 1 + (i % MaxGroupSize),
                                          ArrivalAt(gap, i), mode[i][1], mode[i][2])]
    /\ \E c \in 1..MaxCapacity : capacity = [s \in Stations |-> c]
    /\ simulation_end = SlotDeparture + HorizonBuffer
    /\ now = 0
    /\ queue = {[time |-> 0, prio |-> URGENT, eid |-> 0, kind |-> "init_arrival",
                 proc |-> 0, st |-> ""],
                [time |-> 0, prio |-> URGENT, eid |-> 1, kind |-> "init_sampler",
                 proc |-> 0, st |-> ""],
                [time |-> SlotDeparture + HorizonBuffer, prio |-> URGENT, eid |-> 2,
                 kind |-> "until", proc |-> 0, st |-> ""]}
    /\ eid = 3
    /\ stopped = FALSE
    /\ pc = [i \in G |-> [loc |-> "unborn", stage |-> ""]]
    /\ next_arrival = 1
    /\ last_arrival_time = 0
    /\ users = [s \in Stations |-> <<>>]
    /\ put_queue = [s \in Stations |-> <<>>]
    /\ current_queue = [s \in Stations |-> <<>>]
    /\ queue_history = [s \in Stations |-> <<>>]
    /\ groups_in_area = [a \in Areas |-> <<>>]
    /\ area_occupancy_history = <<>>
    /\ position_snapshots = <<>>
    /\ active_groups = <<>>
    /\ completed_groups = <<>>
    /\ log = <<>>
    /\ snap_waiting = [s \in Stations |-> <<>>]
    /\ last_event = [time |-> 0, prio |-> URGENT, eid |-> 0 - 1, kind |-> "none",
                     proc |-> 0, st |-> ""]
    /\ arrival_gen = GenerationOver
    /\ engine = EngineRunning
    /\ arrival_dist = SamplerIdle
    /\ random_state = GeneratorsUnused
    /\ last_draw = NoDraw

\* ----------------------------------------------------------------- actions
\* Next_is for an event loop that goes on after the `until` event
Next_isPastHorizon(kind) == queue /= {} /\ NextEvent.kind = kind

\* env.step is about to execute an event of this kind
Next_is(kind) == ~stopped /\ queue /= {} /\ NextEvent.kind = kind

Step(w) == Commit(w) /\ last_event' = NextEvent /\ last_draw' = NoDraw

\* Initialize event of arrival_process
InitArrival ==
    /\ Next_is("init_arrival")
    /\ Step(ArrivalLoop(Pop, 1))

\* the arrival process's timeout fires
TimeoutArrival ==
    /\ Next_is("timeout_arrival")
    /\ Step(ArrivalResume(Pop))

\* Initialize event of _position_sampler
InitSampler ==
    /\ Next_is("init_sampler")
    /\ Step(PositionSampler(Pop))

\* the sampler's timeout fires; a sampler that does not advance the clock is
\* followed for MaxSnapshots snapshots
TimeoutSampler ==
    /\ Next_is("timeout_sampler")
    /\ engine.sample_interval_sec = 0 => Len(position_snapshots) < MaxSnapshots
    /\ Step(PositionSampler(Pop))

\* GroupStart sending an Online group to a check-in station like the others
GroupStartOnlineQueues(w, g) ==
    LET w1 == Log([w EXCEPT !.active_groups = Append(@, g)], "begin", "", g)
        w2 == UpdatePosition(w1, g, "source")
    IN  StartStage(w2, g, "checkin")

\* Initialize event of _group_process_wrapper(group): run() up to its first yield
GroupStart(w, g) ==
    LET w1 == Log([w EXCEPT !.active_groups = Append(@, g)], "begin", "", g)
        w2 == UpdatePosition(w1, g, "source")
    IN  IF w2.groups[g].checkin_type = "online"
        THEN [Schedule(w2, OnlineDelay, NORMAL, "timeout_group", g, "")
                  EXCEPT !.pc[g] = [loc |-> "online", stage |-> ""]]
        ELSE StartStage(w2, g, "checkin")

InitGroup ==
    /\ Next_is("init_group")
    /\ Step(GroupStart(Pop, NextEvent.proc))

\* ServiceStart stamping the service start with the queue-enter time
ServiceStartStale(w, g, d) ==
    LET stg == w.pc[g].stage
        w1 == [w EXCEPT !.groups[g][StartField[stg]] =
                            w.groups[g][QueueEnterField[stg]]]
        w2 == Log(w1, "start", StationOf(w.groups[g], stg), g)
    IN  [Schedule(w2, d, NORMAL, "timeout_group", g, "")
             EXCEPT !.pc[g] = [loc |-> "service", stage |-> stg]]

\* the Request event of a group is processed: the group resumes after
\* `yield req`, stamps its service start and sleeps for a sampled service time
ServiceStart(w, g, d) ==
    LET stg == w.pc[g].stage
        w1 == [w EXCEPT !.groups[g][StartField[stg]] = w.now]
        w2 == Log(w1, "start", StationOf(w.groups[g], stg), g)
    IN  [Schedule(w2, d, NORMAL, "timeout_group", g, "")
             EXCEPT !.pc[g] = [loc |-> "service", stage |-> stg]]

\* the values np.random.normal(mean, std) is taken to return: below the
\* floor, negative included, at the floor and above it
NormalDraws == (MinTime - 2)..MaxService

\* sample_one returning the normal draw as it is, without the floor
SampleServiceTimeNoFloor(draw) == draw

\* ServiceTimeDistribution.sample_one: np.maximum(draw, min_time)
SampleServiceTime(draw) == IF draw >= MinTime THEN draw ELSE MinTime

Grant ==
    /\ Next_is("grant")
    /\ \E draw \in NormalDraws :
           /\ Commit(ServiceStart(Pop, NextEvent.proc, SampleServiceTime(draw)))
           /\ last_event' = NextEvent
           /\ last_draw' = [proc |-> NextEvent.proc, value |-> draw]

\* the online check-in delay is over
OnlineDone(w, g) == StartBaggage(UpdatePosition(w, g, "checkin_kiosk"), g)

TimeoutOnline ==
    /\ Next_is("timeout_group")
    /\ pc[NextEvent.proc].loc = "online"
    /\ Step(OnlineDone(Pop, NextEvent.proc))

\* ServiceDone that goes on to the next stage without releasing the station
ServiceDoneNoRelease(w, g) ==
    LET stg == w.pc[g].stage
        w1 == [w EXCEPT !.groups[g][EndField[stg]] = w.now]
        w3 == LeaveArea(w1, AreaOf(stg), g)
    IN  AfterStage(w3, g, stg)

\* the service timeout is over: stamp the end, release, leave the area, go on
ServiceDone(w, g) ==
    LET stg == w.pc[g].stage
        s == StationOf(w.groups[g], stg)
        w1 == [w EXCEPT !.groups[g][EndField[stg]] = w.now]
        w2 == Release(w1, s, g)
        w3 == LeaveArea(w2, AreaOf(stg), g)
    IN  AfterStage(w3, g, stg)

ServiceEnd ==
    /\ Next_is("timeout_group")
    /\ pc[NextEvent.proc].loc = "service"
    /\ Step(ServiceDone(Pop, NextEvent.proc))

\* SecurityDone completing the group without stamping security_arrival
SecurityDoneUnstamped(w, g) ==
    LET w2 == LeaveArea(w, "security_front", g)
        w3 == [w2 EXCEPT !.completed_groups = Append(@, g),
                         !.active_groups = Remove(@, g),
                         !.pc[g] = [loc |-> "done", stage |-> ""]]
    IN  Schedule(w3, 0, NORMAL, "proc_end", g, "")

\* SecurityDone completing the group without its leaving security_front
SecurityDoneStays(w, g) ==
    LET w1 == [w EXCEPT !.groups[g].security_arrival = w.now]
        w3 == [w1 EXCEPT !.completed_groups = Append(@, g),
                         !.active_groups = Remove(@, g),
                         !.pc[g] = [loc |-> "done", stage |-> ""]]
    IN  Schedule(w3, 0, NORMAL, "proc_end", g, "")

\* SecurityDone completing the group without the wrapper's del
SecurityDoneKeepsActive(w, g) ==
    LET w1 == [w EXCEPT !.groups[g].security_arrival = w.now]
        w2 == LeaveArea(w1, "security_front", g)
        w3 == [w2 EXCEPT !.completed_groups = Append(@, g),
                         !.pc[g] = [loc |-> "done", stage |-> ""]]
    IN  Schedule(w3, 0, NORMAL, "proc_end", g, "")

\* SecurityDone putting the group at the head of completed_groups
SecurityDonePrepends(w, g) ==
    LET w1 == [w EXCEPT !.groups[g].security_arrival = w.now]
        w2 == LeaveArea(w1, "security_front", g)
        w3 == [w2 EXCEPT !.completed_groups = <<g>> \o @,
                         !.active_groups = Remove(@, g),
                         !.pc[g] = [loc |-> "done", stage |-> ""]]
    IN  Schedule(w3, 0, NORMAL, "proc_end", g, "")

\* the security-front delay is over: the group completes and its process ends
SecurityDone(w, g) ==
    LET w1 == [w EXCEPT !.groups[g].security_arrival = w.now]
        w2 == LeaveArea(w1, "security_front", g)
        w3 == [w2 EXCEPT !.completed_groups = Append(@, g),
                         !.active_groups = Remove(@, g),
                         !.pc[g] = [loc |-> "done", stage |-> ""]]
    IN  Schedule(w3, 0, NORMAL, "proc_end", g, "")

SecurityArrival ==
    /\ Next_is("timeout_group")
    /\ pc[NextEvent.proc].loc = "security"
    /\ Step(SecurityDone(Pop, NextEvent.proc))

\* a Release event whose callback admits nobody
ReleaseCallbackNone(w, s) == w

\* the callback of a Release event: _trigger_put on the station's resource
ReleaseCallback(w, s) == TriggerPut(w, s)

\* a Release event is processed: its callback _trigger_put admits the head
ReleaseEvent ==
    /\ Next_is("release")
    /\ Step(ReleaseCallback(Pop, NextEvent.st))

\* the event of a finished process: nothing waits for it
ProcessEnd ==
    /\ Next_is("proc_end")
    /\ Step(Pop)

\* the `until` event: env.run returns at the horizon
Until ==
    /\ Next_is("until")
    /\ stopped' = TRUE
    /\ now' = NextEvent.time
    /\ queue' = queue \ {NextEvent}
    /\ last_event' = NextEvent
    /\ last_draw' = NoDraw
    /\ UNCHANGED <<eid, simulation_end, capacity, groups, pc, next_arrival,
                   last_arrival_time, users, put_queue, current_queue,
                   queue_history, groups_in_area, area_occupancy_history,
                   position_snapshots, active_groups, completed_groups, log,
                   snap_waiting, arrival_gen, engine, arrival_dist,
                   random_state>>

Next ==
    \/ InitArrival
    \/ TimeoutArrival
    \/ InitSampler
    \/ TimeoutSampler
    \/ InitGroup
    \/ Grant
    \/ TimeoutOnline
    \/ ServiceEnd
    \/ SecurityArrival
    \/ ReleaseEvent
    \/ ProcessEnd
    \/ Until

Spec == Init /\ [][Next]_vars

\* Init of the runs whose fair continuation is followed
InitLive == Init

\* env.run has an event to process: a step of Next is possible
Busy == queue /= {} /\ ~stopped

\* weak fairness of the event loop, which processes the next event as long as
\* there is one: the loop is idle again and again, or steps again and again
LoopFairness == []<>(~Busy) \/ []<><<Next>>_vars

SpecLive == InitLive /\ [][Next]_vars /\ LoopFairness

\* ------------------------------------------------ a run cut by the horizon
\* max(g.departure_time for g in groups)
MaxDeparture(gs) ==
    CHOOSE d \in {gs[i].departure_time : i \in DOMAIN gs} :
        \A i \in DOMAIN gs : gs[i].departure_time <= d

\* Horizon taking the departure of the last group of the sorted list
HorizonOfLastGroup(gs) == gs[Len(gs)].departure_time + HorizonBuffer

\* simulation_end = last_departure + 3600
Horizon(gs) == MaxDeparture(gs) + HorizonBuffer

\* SimulationEngine.run up to env.run, for groups of several slots that
\* arrive shortly before the horizon or after it (arrival_range_min is not
\* validated: a negative value puts the arrivals after the departure)
InitHorizon ==
    /\ \E gap \in [G -> {0, LateGap}], mode \in [G -> ModeChoices], latest \in G :
           /\ gap[1] = 0
           /\ groups =
                  [i \in G |->
                      [NewGroup(i, 1 + (i % MaxGroupSize),
                                SlotDeparture + HorizonBuffer - HorizonLead
                                    + ArrivalAt(gap, i),
                                mode[i][1], mode[i][2])
                           EXCEPT !.departure_time =
                                      IF i = latest THEN SlotDeparture
                                      ELSE SlotDeparture - DepartureStep]]
    /\ capacity = [s \in Stations |-> 1]
    /\ simulation_end = Horizon(groups)
    /\ now = 0
    /\ queue = {[time |-> 0, prio |-> URGENT, eid |-> 0, kind |-> "init_arrival",
                 proc |-> 0, st |-> ""],
                [time |-> 0, prio |-> URGENT, eid |-> 1, kind |-> "init_sampler",
                 proc |-> 0, st |-> ""],
                [time |-> Horizon(groups), prio |-> URGENT, eid |-> 2,
                 kind |-> "until", proc |-> 0, st |-> ""]}
    /\ eid = 3
    /\ stopped = FALSE
    /\ pc = [i \in G |-> [loc |-> "unborn", stage |-> ""]]
    /\ next_arrival = 1
    /\ last_arrival_time = 0
    /\ users = [s \in Stations |-> <<>>]
    /\ put_queue = [s \in Stations |-> <<>>]
    /\ current_queue = [s \in Stations |-> <<>>]
    /\ queue_history = [s \in Stations |-> <<>>]
    /\ groups_in_area = [a \in Areas |-> <<>>]
    /\ area_occupancy_history = <<>>
    /\ position_snapshots = <<>>
    /\ active_groups = <<>>
    /\ completed_groups = <<>>
    /\ log = <<>>
    /\ snap_waiting = [s \in Stations |-> <<>>]
    /\ last_event = [time |-> 0, prio |-> URGENT, eid |-> 0 - 1, kind |-> "none",
                     proc |-> 0, st |-> ""]
    /\ arrival_gen = GenerationOver
    /\ engine = EngineRunning
    /\ arrival_dist = SamplerIdle
    /\ random_state = GeneratorsUnused
    /\ last_draw = NoDraw

SpecHorizon == InitHorizon /\ [][Next]_vars

\* ---------------------------------------------------- every pair of modes
\* every (checkin_type, baggage_drop_type) pair create_group can draw
AllModes == CheckinTypes \X BaggageDropTypes

\* SimulationEngine.run up to env.run, at stations of capacity 1, for groups
\* that arrive at instants 0, 1 and so on, two by two: the last one checks in
\* at the counter and drops its baggage itself, the others have any modes
InitModes ==
    /\ \E mode \in [G -> AllModes] :
           /\ mode[NumGroups] = <<"counter", "self">>
           /\ groups = [i \in G |-> NewGroup(i, 1 + (i % MaxGroupSize), i \div 2,
                                             mode[i][1], mode[i][2])]
    /\ capacity = [s \in Stations |-> 1]
    /\ simulation_end = Horizon(groups)
    /\ now = 0
    /\ queue = {[time |-> 0, prio |-> URGENT, eid |-> 0, kind |-> "init_arrival",
                 proc |-> 0, st |-> ""],
                [time |-> 0, prio |-> URGENT, eid |-> 1, kind |-> "init_sampler",
                 proc |-> 0, st |-> ""],
                [time |-> Horizon(groups), prio |-> URGENT, eid |-> 2,
                 kind |-> "until", proc |-> 0, st |-> ""]}
    /\ eid = 3
    /\ stopped = FALSE
    /\ pc = [i \in G |-> [loc |-> "unborn", stage |-> ""]]
    /\ next_arrival = 1
    /\ last_arrival_time = 0
    /\ users = [s \in Stations |-> <<>>]
    /\ put_queue = [s \in Stations |-> <<>>]
    /\ current_queue = [s \in Stations |-> <<>>]
    /\ queue_history = [s \in Stations |-> <<>>]
    /\ groups_in_area = [a \in Areas |-> <<>>]
    /\ area_occupancy_history = <<>>
    /\ position_snapshots = <<>>
    /\ active_groups = <<>>
    /\ completed_groups = <<>>
    /\ log = <<>>
    /\ snap_waiting = [s \in Stations |-> <<>>]
    /\ last_event = [time |-> 0, prio |-> URGENT, eid |-> 0 - 1, kind |-> "none",
                     proc |-> 0, st |-> ""]
    /\ arrival_gen = GenerationOver
    /\ engine = EngineRunning
    /\ arrival_dist = SamplerIdle
    /\ random_state = GeneratorsUnused
    /\ last_draw = NoDraw

SpecModes == InitModes /\ [][Next]_vars

\* ------------------------------------------------------ the sampling interval
\* the configured sample_interval_sec: env.timeout accepts any delay >= 0
IntervalChoices == {0, SampleInterval}

\* SimulationEngine.run up to env.run, at stations of capacity 1, with a
\* sampling interval of IntervalChoices
InitProbe ==
    /\ \E gap \in [G -> 0..MaxGap], mode \in [G -> ModeChoices] :
           /\ gap[1] = 0
           /\ groups = [i \in G |-> NewGroup(i, 1 + (i % MaxGroupSize),
                                             ArrivalAt(gap, i), mode[i][1], mode[i][2])]
    /\ \E interval \in IntervalChoices :
           engine = [EngineRunning EXCEPT !.sample_interval_sec = interval]
    /\ capacity = [s \in Stations |-> 1]
    /\ simulation_end = Horizon(groups)
    /\ now = 0
    /\ queue = {[time |-> 0, prio |-> URGENT, eid |-> 0, kind |-> "init_arrival",
                 proc |-> 0, st |-> ""],
                [time |-> 0, prio |-> URGENT, eid |-> 1, kind |-> "init_sampler",
                 proc |-> 0, st |-> ""],
                [time |-> Horizon(groups), prio |-> URGENT, eid |-> 2,
                 kind |-> "until", proc |-> 0, st |-> ""]}
    /\ eid = 3
    /\ stopped = FALSE
    /\ pc = [i \in G |-> [loc |-> "unborn", stage |-> ""]]
    /\ next_arrival = 1
    /\ last_arrival_time = 0
    /\ users = [s \in Stations |-> <<>>]
    /\ put_queue = [s \in Stations |-> <<>>]
    /\ current_queue = [s \in Stations |-> <<>>]
    /\ queue_history = [s \in Stations |-> <<>>]
    /\ groups_in_area = [a \in Areas |-> <<>>]
    /\ area_occupancy_history = <<>>
    /\ position_snapshots = <<>>
    /\ active_groups = <<>>
    /\ completed_groups = <<>>
    /\ log = <<>>
    /\ snap_waiting = [s \in Stations |-> <<>>]
    /\ last_event = [time |-> 0, prio |-> URGENT, eid |-> 0 - 1, kind |-> "none",
                     proc |-> 0, st |-> ""]
    /\ arrival_gen = GenerationOver
    /\ arrival_dist = SamplerIdle
    /\ random_state = GeneratorsUnused
    /\ last_draw = NoDraw

SpecProbe == InitProbe /\ [][Next]_vars

\* ------------------------------------------- generate_arrivals_for_slot
\* random.random(), in hundredths: a value of [0, 1)
RandomDraws == {0, 50, 99}

\* the configured p_single, in hundredths; multi_min and multi_max are taken
\* as configured, none of the three being validated
PSingleChoices == {0, 50, 100}

MultiChoices == 0..MaxMulti

kernel_vars ==
    <<now, queue, eid, stopped, simulation_end, capacity, groups, pc,
      next_arrival, last_arrival_time, users, put_queue, current_queue,
      queue_history, groups_in_area, area_occupancy_history,
      position_snapshots, active_groups, completed_groups, log,
      snap_waiting, last_event, last_draw>>

\* the sizes create_group can give a group when random.random() returns r:
\* 1 if r < p_single, else random.randint(multi_min, multi_max), which has
\* no value (it raises ValueError) when multi_min > multi_max
GroupSizes(gen, r) ==
    IF r < gen.p_single THEN {1} ELSE gen.multi_min..gen.multi_max

\* LoopContinues with the loop going on until the demand is exceeded
LoopContinuesAtZero(gen) == gen.remaining_pax >= 0

\* while remaining_pax > 0
LoopContinues(gen) == gen.remaining_pax > 0

\* groups.append(group); remaining_pax -= group.group_size
AppendGroup(gen, size) ==
    [gen EXCEPT !.groups = Append(@, [group_id |-> Len(gen.groups),
                                      group_size |-> size]),
                !.remaining_pax = @ - size]

\* the call generate_arrivals_for_slot(slot) for a slot with pax_count > 0,
\* on a fresh factory: nothing of the event loop exists yet
InitGeneration ==
    /\ \E P \in 1..MaxPax, lo \in MultiChoices, hi \in MultiChoices,
          ps \in PSingleChoices :
           arrival_gen = [pax_count |-> P, remaining_pax |-> P, groups |-> <<>>,
                          multi_min |-> lo, multi_max |-> hi, p_single |-> ps,
                          pc |-> "loop"]
    /\ now = 0
    /\ queue = {}
    /\ eid = 0
    /\ stopped = FALSE
    /\ simulation_end = 0
    /\ capacity = [s \in Stations |-> 1]
    /\ groups = <<>>
    /\ pc = <<>>
    /\ next_arrival = 1
    /\ last_arrival_time = 0
    /\ users = [s \in Stations |-> <<>>]
    /\ put_queue = [s \in Stations |-> <<>>]
    /\ current_queue = [s \in Stations |-> <<>>]
    /\ queue_history = [s \in Stations |-> <<>>]
    /\ groups_in_area = [a \in Areas |-> <<>>]
    /\ area_occupancy_history = <<>>
    /\ position_snapshots = <<>>
    /\ active_groups = <<>>
    /\ completed_groups = <<>>
    /\ log = <<>>
    /\ snap_waiting = [s \in Stations |-> <<>>]
    /\ last_event = [time |-> 0, prio |-> URGENT, eid |-> 0 - 1, kind |-> "none",
                     proc |-> 0, st |-> ""]
    /\ engine = [pc |-> "generate"]
    /\ arrival_dist = SamplerIdle
    /\ random_state = GeneratorsUnused
    /\ last_draw = NoDraw

\* one iteration of the while loop: a group is created and appended
GenerateLoop ==
    /\ arrival_gen.pc = "loop"
    /\ LoopContinues(arrival_gen)
    /\ Len(arrival_gen.groups) < MaxSlotGroups
    /\ \E r \in RandomDraws :
           \E size \in GroupSizes(arrival_gen, r) :
               arrival_gen' = AppendGroup(arrival_gen, size)
    /\ UNCHANGED <<kernel_vars, engine, arrival_dist, random_state>>

\* an iteration in which random.randint(multi_min, multi_max) raises
GenerateRaise ==
    /\ arrival_gen.pc = "loop"
    /\ LoopContinues(arrival_gen)
    /\ \E r \in RandomDraws : GroupSizes(arrival_gen, r) = {}
    /\ arrival_gen' = [arrival_gen EXCEPT !.pc = "raised"]
    /\ UNCHANGED <<kernel_vars, engine, arrival_dist, random_state>>

\* the loop condition fails: return groups
GenerateReturn ==
    /\ arrival_gen.pc = "loop"
    /\ ~LoopContinues(arrival_gen)
    /\ arrival_gen' = [arrival_gen EXCEPT !.pc = "returned"]
    /\ UNCHANGED <<kernel_vars, engine, arrival_dist, random_state>>

NextGeneration ==
    \/ GenerateLoop
    \/ GenerateRaise
    \/ GenerateReturn

SpecGeneration == InitGeneration /\ [][NextGeneration]_vars

\* ------------------------------------------- TruncatedTDistribution.sample
\* max_attempts = size * 100
AttemptFactor == 100

\* no SimPy environment exists: nothing of the event loop has a value yet
NoEnvironment ==
    /\ now = 0
    /\ queue = {}
    /\ eid = 0
    /\ stopped = FALSE
    /\ simulation_end = 0
    /\ capacity = [s \in Stations |-> 1]
    /\ groups = <<>>
    /\ pc = <<>>
    /\ next_arrival = 1
    /\ last_arrival_time = 0
    /\ users = [s \in Stations |-> <<>>]
    /\ put_queue = [s \in Stations |-> <<>>]
    /\ current_queue = [s \in Stations |-> <<>>]
    /\ queue_history = [s \in Stations |-> <<>>]
    /\ groups_in_area = [a \in Areas |-> <<>>]
    /\ area_occupancy_history = <<>>
    /\ position_snapshots = <<>>
    /\ active_groups = <<>>
    /\ completed_groups = <<>>
    /\ log = <<>>
    /\ snap_waiting = [s \in Stations |-> <<>>]
    /\ last_event = [time |-> 0, prio |-> URGENT, eid |-> 0 - 1, kind |-> "none",
                     proc |-> 0, st |-> ""]
    /\ last_draw = NoDraw

\* the values self.t_dist.rvs is taken to return for a distribution truncated
\* to [lower, upper]: below the range, at its two ends and above it
TDraws(dist) == {dist.lower - 1, dist.lower, dist.upper, dist.upper + 1}

\* the acceptance test of a candidate that forgets the upper bound
AcceptedNoUpper(dist, c) == c >= dist.lower

\* (candidates >= self.lower) & (candidates <= self.upper)
Accepted(dist, c) == c >= dist.lower /\ c <= dist.upper

\* batch_size = (size - len(samples)) * 2
BatchSize(dist) == (dist.size - Len(dist.samples)) * 2

\* while len(samples) < size and attempts < max_attempts
SamplingContinues(dist) ==
    Len(dist.samples) < dist.size /\ dist.attempts < dist.size * AttemptFactor

\* the first n elements of s: s[:n]
Take(s, n) == SubSeq(s, 1, Min(n, Len(s)))

\* a call sample(size), or sample_one(), on a distribution of bounds
\* lower <= upper
InitSampling ==
    /\ \E lo \in 1..MaxLower, width \in 0..MaxWidth, n \in 0..MaxSampleSize,
          one \in BOOLEAN :
           /\ one => n = 1
           /\ arrival_dist = [lower |-> lo, upper |-> lo + width, size |-> n,
                              call |-> IF one THEN "sample_one" ELSE "sample",
                              samples |-> <<>>, attempts |-> 0, filled |-> 0,
                              result |-> <<>>, pc |-> "loop"]
    /\ NoEnvironment
    /\ arrival_gen = GenerationOver
    /\ engine = [pc |-> "generate"]
    /\ random_state = GeneratorsUnused

\* one pass of the rejection loop: a batch is drawn and filtered
SampleBatch ==
    /\ arrival_dist.pc = "loop"
    /\ SamplingContinues(arrival_dist)
    /\ \E candidates \in [1..BatchSize(arrival_dist) -> TDraws(arrival_dist)] :
           LET valid == SelectSeq(candidates,
                                  LAMBDA c : Accepted(arrival_dist, c))
           IN  arrival_dist' =
                   [arrival_dist EXCEPT !.samples = @ \o valid,
                                        !.attempts = @ + BatchSize(arrival_dist)]
    /\ UNCHANGED <<kernel_vars, arrival_gen, engine, random_state>>

\* the loop is left with too few samples: the rest is drawn uniformly
SampleFill ==
    /\ arrival_dist.pc = "loop"
    /\ ~SamplingContinues(arrival_dist)
    /\ Len(arrival_dist.samples) < arrival_dist.size
    /\ LET remaining == arrival_dist.size - Len(arrival_dist.samples)
       IN  \E uniform_samples \in
                  [1..remaining -> arrival_dist.lower..arrival_dist.upper] :
               arrival_dist' =
                   [arrival_dist EXCEPT !.samples = @ \o uniform_samples,
                                        !.filled = remaining,
                                        !.pc = "filled"]
    /\ UNCHANGED <<kernel_vars, arrival_gen, engine, random_state>>

\* return np.array(samples[:size])
SampleReturn ==
    /\ \/ arrival_dist.pc = "filled"
       \/ /\ arrival_dist.pc = "loop"
          /\ ~SamplingContinues(arrival_dist)
          /\ Len(arrival_dist.samples) >= arrival_dist.size
    /\ arrival_dist' =
           [arrival_dist EXCEPT !.result = Take(arrival_dist.samples,
                                                arrival_dist.size),
                                !.pc = "returned"]
    /\ UNCHANGED <<kernel_vars, arrival_gen, engine, random_state>>

NextSampling ==
    \/ SampleBatch
    \/ SampleFill
    \/ SampleReturn

\* the call runs on: a sequential program takes its next step
SpecSampling == InitSampling /\ [][NextSampling]_vars /\ WF_vars(NextSampling)

\* ------------------------------------------------- SimulationEngine.run
OneEach == [s \in Stations |-> 1]

\* a SimulationConfig, probabilities in hundredths: every group checks in
\* online, has no baggage and travels alone
BaseConfig ==
    [p_online |-> 100, p_kiosk |-> 0, p_counter |-> 0, p_baggage |-> 0,
     p_baggage_counter |-> 40, p_single |-> 100, group_multi_min |-> 2,
     group_multi_max |-> 2, capacity |-> OneEach,
     arrival_range_min |-> 0, arrival_range_max |-> MaxBefore]

\* the configurations handed to SimulationConfig(...): none of the fields is
\* checked by the dataclass, so any value can be given
ConfigChoices ==
    {BaseConfig,
     [BaseConfig EXCEPT !.p_single = 50],
     [BaseConfig EXCEPT !.p_baggage = 150, !.p_baggage_counter = 100],
     [BaseConfig EXCEPT !.p_online = 0],
     [BaseConfig EXCEPT !.p_online = 50, !.p_kiosk = 0 - 50],
     [BaseConfig EXCEPT !.capacity = [OneEach EXCEPT !["baggage_counter"] = 0]],
     [BaseConfig EXCEPT !.capacity = [OneEach EXCEPT !["drop_point"] = 0 - 1],
                        !.p_baggage = 0 - 20]}

\* the k-th slot of a schedule of slots of SlotMinutes each
SlotAt(k, p) ==
    [start_minutes |-> SlotMinutes * (k - 1), end_minutes |-> SlotMinutes * k,
     pax_count |-> p]

\* the demand schedules: up to MaxSlots slots, pax_count from -1 on
DemandChoices ==
    UNION {{[k \in 1..n |-> SlotAt(k, pax[k])] :
                pax \in [1..n -> (0 - 1)..MaxSlotPax]} : n \in 0..MaxSlots}

\* simpy.Resource(env, capacity) raises ValueError for any station
ResourceErrorNever(config) == FALSE

\* simpy.Resource(env, capacity) raises ValueError unless capacity > 0
ResourceError(config) == \E s \in Stations : config.capacity[s] <= 0

\* total = p_online + p_kiosk + p_counter, divided by in the factory
SplitTotal(config) == config.p_online + config.p_kiosk + config.p_counter

\* BelowShare comparing with the share as configured, not normalized
BelowShareRaw(rand, p, total) == rand < p

\* rand < p / total, for rand and p in hundredths and total /= 0
BelowShare(rand, p, total) ==
    IF total > 0 THEN rand * total < 100 * p ELSE rand * total > 100 * p

\* the check-in type create_group draws on rand
CheckinDraw(config, rand) ==
    CASE BelowShare(rand, config.p_online, SplitTotal(config)) -> "online"
      [] BelowShare(rand, config.p_online + config.p_kiosk, SplitTotal(config))
             -> "kiosk"
      [] OTHER -> "counter"

\* has_baggage = random.random() < self.p_baggage
HasBaggage(config, rand_bag) == rand_bag < config.p_baggage

\* the baggage drop type create_group draws on rand_bag and rand_counter
BaggageDraw(config, rand_bag, rand_counter) ==
    IF HasBaggage(config, rand_bag)
    THEN IF rand_counter < config.p_baggage_counter THEN "counter" ELSE "self"
    ELSE "none"

\* departure_time_min = (slot.start_minutes + slot.end_minutes) / 2, in half
\* minutes
DepartureHalfMinutes(slot) == slot.start_minutes + slot.end_minutes

\* ArrivalHalfMinutes without the clamp at 0
ArrivalHalfMinutesUnclamped(slot, min_before_departure) ==
    DepartureHalfMinutes(slot) - 2 * min_before_departure

\* arrival_time_min = max(0, departure_time_min - min_before_departure), in
\* half minutes
ArrivalHalfMinutes(slot, min_before_departure) ==
    IF DepartureHalfMinutes(slot) - 2 * min_before_departure > 0
    THEN DepartureHalfMinutes(slot) - 2 * min_before_departure
    ELSE 0

\* minutes to seconds (* 60), from half minutes
Seconds(half_minutes) == 30 * half_minutes

\* InsertByArrival putting a group before those of equal arrival_time
RECURSIVE InsertBeforeEqual(_, _)
InsertBeforeEqual(s, g) ==
    IF s = <<>> THEN <<g>>
    ELSE IF s[Len(s)].arrival_time < g.arrival_time
         THEN Append(s, g)
         ELSE Append(InsertBeforeEqual(SubSeq(s, 1, Len(s) - 1), g), s[Len(s)])

\* g put into the sorted list s behind every group whose arrival_time is
\* not greater
RECURSIVE InsertByArrival(_, _)
InsertByArrival(s, g) ==
    IF s = <<>> THEN <<g>>
    ELSE IF s[Len(s)].arrival_time <= g.arrival_time
         THEN Append(s, g)
         ELSE Append(InsertByArrival(SubSeq(s, 1, Len(s) - 1), g), s[Len(s)])

\* all_groups.sort(key=lambda g: g.arrival_time): list.sort is stable
RECURSIVE SortByArrival(_)
SortByArrival(s) ==
    IF s = <<>> THEN <<>>
    ELSE InsertByArrival(SortByArrival(SubSeq(s, 1, Len(s) - 1)), s[Len(s)])

\* `if not groups` taking no list for empty
NoGroupsNever(gs) == FALSE

\* if not groups
NoGroups(gs) == gs = <<>>

\* a configuration and a demand schedule are at hand; no engine is built
InitRun ==
    /\ \E config \in ConfigChoices, demand_slots \in DemandChoices :
           engine = [pc |-> "new", config |-> config,
                     sample_interval_sec |-> SampleInterval,
                     demand_slots |-> demand_slots, error |-> "",
                     result |-> [returned |-> FALSE]]
    /\ arrival_gen = [pc |-> "unbuilt", slot |-> 1, remaining_pax |-> 0,
                      groups |-> <<>>, all_groups |-> <<>>,
                      generated |-> <<>>, next_group_id |-> 0]
    /\ arrival_dist = SamplerIdle
    /\ random_state = GeneratorsUnused
    /\ NoEnvironment

\* SimulationConfig(...) and SimulationEngine(config, nodes): the fields are
\* stored as given
Construct ==
    /\ engine.pc = "new"
    /\ engine' = [engine EXCEPT !.pc = "constructed"]
    /\ UNCHANGED <<kernel_vars, arrival_gen, arrival_dist, random_state>>

\* run() up to generate_all_arrivals: the environment, the resources, the
\* factory, the arrival generator and the process handler are built
RunBuild ==
    /\ engine.pc = "constructed"
    /\ IF ResourceError(engine.config)
       THEN /\ engine' = [engine EXCEPT !.pc = "raised", !.error = "ValueError"]
            /\ UNCHANGED <<capacity, arrival_gen>>
       ELSE IF SplitTotal(engine.config) = 0
            THEN /\ engine' = [engine EXCEPT !.pc = "raised",
                                             !.error = "ZeroDivisionError"]
                 /\ capacity' = engine.config.capacity
                 /\ UNCHANGED arrival_gen
            ELSE /\ engine' = [engine EXCEPT !.pc = "generate"]
                 /\ capacity' = engine.config.capacity
                 /\ arrival_gen' = [arrival_gen EXCEPT !.pc = "slots"]
    /\ now' = 0
    /\ UNCHANGED <<queue, eid, stopped, simulation_end, groups, pc,
                   next_arrival, last_arrival_time, users, put_queue,
                   current_queue, queue_history, groups_in_area,
                   area_occupancy_history, position_snapshots, active_groups,
                   completed_groups, log, snap_waiting, last_event, last_draw,
                   arrival_dist, random_state>>

\* the slot the for loop of generate_all_arrivals is at
CurrentSlot == engine.demand_slots[arrival_gen.slot]

\* for slot in demand_slots: a slot without demand is passed over
GenerateSkip ==
    /\ engine.pc = "generate" /\ arrival_gen.pc = "slots"
    /\ arrival_gen.slot <= Len(engine.demand_slots)
    /\ ~(CurrentSlot.pax_count > 0)
    /\ arrival_gen' = [arrival_gen EXCEPT !.slot = @ + 1]
    /\ UNCHANGED <<kernel_vars, engine, arrival_dist, random_state>>

\* generate_arrivals_for_slot(slot) is entered
GenerateEnter ==
    /\ engine.pc = "generate" /\ arrival_gen.pc = "slots"
    /\ arrival_gen.slot <= Len(engine.demand_slots)
    /\ CurrentSlot.pax_count > 0
    /\ arrival_gen' = [arrival_gen EXCEPT !.pc = "loop", !.groups = <<>>,
                                          !.remaining_pax = CurrentSlot.pax_count]
    /\ UNCHANGED <<kernel_vars, engine, arrival_dist, random_state>>

\* create_group leaving the id counter where it is
NextGroupIdSame(group_id) == group_id

\* self._next_group_id += 1
NextGroupId(group_id) == group_id + 1

\* PassengerGroupFactory.create_group on the draws of random.random() and
\* random.randint
CreateGroup(config, group_id, arrival_time, departure_time, size, rand, rand_bag, rand_counter) ==
    [NewGroup(group_id + 1, size, arrival_time, CheckinDraw(config, rand),
              BaggageDraw(config, rand_bag, rand_counter))
         EXCEPT !.departure_time = departure_time,
                !.has_baggage = HasBaggage(config, rand_bag)]

\* one pass of the while loop of generate_arrivals_for_slot; sample_one()
\* returns a value within [arrival_range_min, arrival_range_max]
GenerateGroup ==
    /\ engine.pc = "generate" /\ arrival_gen.pc = "loop"
    /\ LoopContinues(arrival_gen)
    /\ \E min_before_departure \in
              engine.config.arrival_range_min..engine.config.arrival_range_max,
          rand_size \in RandomDraws, rand \in RandomDraws,
          rand_bag \in RandomDraws, rand_counter \in RandomDraws :
           \E size \in IF rand_size < engine.config.p_single THEN {1}
                       ELSE engine.config.group_multi_min
                                ..engine.config.group_multi_max :
               LET group ==
                       CreateGroup(engine.config, arrival_gen.next_group_id,
                                   Seconds(ArrivalHalfMinutes(CurrentSlot,
                                                              min_before_departure)),
                                   Seconds(DepartureHalfMinutes(CurrentSlot)),
                                   size, rand, rand_bag, rand_counter)
               IN  arrival_gen' =
                       [arrival_gen EXCEPT
                            !.groups = Append(@, group),
                            !.remaining_pax = @ - size,
                            !.next_group_id = NextGroupId(@),
                            !.generated =
                                Append(@, [group |-> group,
                                           slot |-> arrival_gen.slot,
                                           min_before_departure |->
                                               min_before_departure])]
    /\ UNCHANGED <<kernel_vars, engine, arrival_dist, random_state>>

\* generate_arrivals_for_slot returns: all_groups.extend(groups)
GenerateExtend ==
    /\ engine.pc = "generate" /\ arrival_gen.pc = "loop"
    /\ ~LoopContinues(arrival_gen)
    /\ arrival_gen' = [arrival_gen EXCEPT !.pc = "slots", !.slot = @ + 1,
                                          !.all_groups = @ \o arrival_gen.groups]
    /\ UNCHANGED <<kernel_vars, engine, arrival_dist, random_state>>

\* the for loop is over: the list is sorted and returned to run()
GenerateSort ==
    /\ engine.pc = "generate" /\ arrival_gen.pc = "slots"
    /\ arrival_gen.slot > Len(engine.demand_slots)
    /\ arrival_gen' = [arrival_gen EXCEPT
                           !.pc = "returned",
                           !.all_groups = SortByArrival(arrival_gen.all_groups)]
    /\ engine' = [engine EXCEPT !.pc = "generated"]
    /\ UNCHANGED <<kernel_vars, arrival_dist, random_state>>

\* no passengers to simulate: run() returns an empty result
RunEmpty ==
    /\ engine.pc = "generated"
    /\ NoGroups(arrival_gen.all_groups)
    /\ engine' = [engine EXCEPT
                      !.pc = "returned",
                      !.result = [returned |-> TRUE, completed_groups |-> <<>>,
                                  position_snapshots |-> <<>>,
                                  area_occupancy_history |-> <<>>,
                                  simulation_duration_sec |-> 0]]
    /\ UNCHANGED <<kernel_vars, arrival_gen, arrival_dist, random_state>>

\* run() from the horizon to env.run, for a list of NumGroups groups: the
\* arrival process, the sampler and the stop event are scheduled; max() of
\* an empty list raises ValueError
RunStart ==
    /\ engine.pc = "generated"
    /\ ~NoGroups(arrival_gen.all_groups)
    /\ Len(arrival_gen.all_groups) \in {0, NumGroups}
    /\ IF arrival_gen.all_groups = <<>>
       THEN /\ engine' = [engine EXCEPT !.pc = "raised", !.error = "ValueError"]
            /\ UNCHANGED <<groups, simulation_end, queue, eid, pc>>
       ELSE /\ engine' = [engine EXCEPT !.pc = "env_run"]
            /\ groups' = arrival_gen.all_groups
            /\ simulation_end' = Horizon(arrival_gen.all_groups)
            /\ queue' = {[time |-> 0, prio |-> URGENT, eid |-> 0,
                          kind |-> "init_arrival", proc |-> 0, st |-> ""],
                         [time |-> 0, prio |-> URGENT, eid |-> 1,
                          kind |-> "init_sampler", proc |-> 0, st |-> ""],
                         [time |-> Horizon(arrival_gen.all_groups),
                          prio |-> URGENT, eid |-> 2, kind |-> "until",
                          proc |-> 0, st |-> ""]}
            /\ eid' = 3
            /\ pc' = [i \in G |-> [loc |-> "unborn", stage |-> ""]]
    /\ UNCHANGED <<now, stopped, capacity, next_arrival, last_arrival_time,
                   users, put_queue, current_queue, queue_history,
                   groups_in_area, area_occupancy_history, position_snapshots,
                   active_groups, completed_groups, log, snap_waiting,
                   last_event, last_draw, arrival_gen, arrival_dist,
                   random_state>>

\* env.run has returned: the SimulationResult is collected
RunReturn ==
    /\ engine.pc = "env_run"
    /\ stopped
    /\ engine' = [engine EXCEPT
                      !.pc = "returned",
                      !.result = [returned |-> TRUE,
                                  completed_groups |-> completed_groups,
                                  position_snapshots |-> position_snapshots,
                                  area_occupancy_history |->
                                      area_occupancy_history,
                                  simulation_duration_sec |-> now]]
    /\ UNCHANGED <<kernel_vars, arrival_gen, arrival_dist, random_state>>

NextRun ==
    \/ Construct
    \/ RunBuild
    \/ GenerateSkip
    \/ GenerateEnter
    \/ GenerateGroup
    \/ GenerateExtend
    \/ GenerateSort
    \/ RunEmpty
    \/ RunStart
    \/ Next
    \/ RunReturn

SpecRun == InitRun /\ [][NextRun]_vars

\* --------------------------------------------------- PassengerGroupFactory
\* the configured shares of the three check-in types, in hundredths; they
\* need not add up to 100
ShareChoices == {0, 50, 100}

\* the arguments run() hands to PassengerGroupFactory(...)
FactoryChoices ==
    {[BaseConfig EXCEPT !.p_online = on, !.p_kiosk = ki, !.p_counter = co,
                        !.p_baggage = bag, !.p_baggage_counter = bc,
                        !.p_single = ps] :
         on \in ShareChoices, ki \in ShareChoices, co \in ShareChoices,
         bag \in {0, 50, 150}, bc \in {0, 40}, ps \in {50, 100}}

\* no group was created yet
NoneCreated == [made |-> FALSE]

\* run() is about to build the group factory
InitFactory ==
    /\ \E config \in FactoryChoices :
           engine = [pc |-> "run_build", config |-> config, error |-> ""]
    /\ arrival_gen = [pc |-> "unbuilt", next_group_id |-> 0,
                      created |-> NoneCreated]
    /\ arrival_dist = SamplerIdle
    /\ random_state = GeneratorsUnused
    /\ NoEnvironment

\* PassengerGroupFactory.__init__: the three shares are divided by their
\* total, the other probabilities are stored as given
FactoryInit ==
    /\ arrival_gen.pc = "unbuilt"
    /\ IF SplitTotal(engine.config) = 0
       THEN /\ engine' = [engine EXCEPT !.pc = "raised",
                                        !.error = "ZeroDivisionError"]
            /\ arrival_gen' = [arrival_gen EXCEPT !.pc = "raised"]
       ELSE /\ engine' = [engine EXCEPT !.pc = "generate"]
            /\ arrival_gen' = [arrival_gen EXCEPT !.pc = "ready"]
    /\ UNCHANGED <<kernel_vars, arrival_dist, random_state>>

\* one call of create_group, on its draws
FactoryCreate ==
    /\ arrival_gen.pc = "ready"
    /\ arrival_gen.next_group_id < MaxCreated
    /\ \E rand_size \in RandomDraws, rand \in RandomDraws,
          rand_bag \in RandomDraws, rand_counter \in RandomDraws :
           \E size \in IF rand_size < engine.config.p_single THEN {1}
                       ELSE engine.config.group_multi_min
                                ..engine.config.group_multi_max :
               arrival_gen' =
                   [arrival_gen EXCEPT
                        !.next_group_id = NextGroupId(@),
                        !.created =
                            [made |-> TRUE,
                             group |-> CreateGroup(engine.config,
                                                   arrival_gen.next_group_id,
                                                   0, SlotDeparture, size, rand,
                                                   rand_bag, rand_counter),
                             rand_size |-> rand_size, rand |-> rand,
                             rand_bag |-> rand_bag,
                             rand_counter |-> rand_counter]]
    /\ UNCHANGED <<kernel_vars, engine, arrival_dist, random_state>>

NextFactory ==
    \/ FactoryInit
    \/ FactoryCreate

SpecFactory == InitFactory /\ [][NextFactory]_vars

\* ------------------------------------------------------ two runs, one seed
\* the configuration of the replayed runs: sizes and modes depend on draws
ReplayConfig ==
    [BaseConfig EXCEPT !.p_online = 50, !.p_kiosk = 50, !.p_baggage = 50,
                       !.p_baggage_counter = 50, !.p_single = 50]

\* the state numpy's global generator is left in by np.random.seed(seed)
SeedState(seed) == seed

\* the value a generator in state s returns: some fixed sequence over
\* RandomDraws, the same for every run
DrawAt(s) ==
    CASE s % 3 = 0 -> 50
      [] s % 3 = 1 -> 0
      [] OTHER -> 99

\* arrival_dist.sample_one() on numpy's generator in state s: a value of
\* [arrival_range_min, arrival_range_max] fixed by s
SampleOneAt(config, s) ==
    config.arrival_range_min
        + (s % (config.arrival_range_max - config.arrival_range_min + 1))

\* whether create_group, on Python's random generator in state py, draws a
\* group of one: random.random() < p_single
SingleAt(config, py) == DrawAt(py) < config.p_single

\* the state of the generator after the size is drawn: random.randint is
\* called for a larger group only
AfterSize(config, py) == IF SingleAt(config, py) THEN py + 1 ELSE py + 2

\* the draws create_group takes from the generator in state py: the size,
\* the check-in type, the baggage, and for a group with baggage the kind of
\* drop
DrawsTaken(config, py) ==
    (AfterSize(config, py) - py) + 2
        + (IF DrawAt(AfterSize(config, py) + 1) < config.p_baggage THEN 1 ELSE 0)

\* create_group on Python's random generator in state py
CreateGroupAt(config, group_id, arrival_time, departure_time, py) ==
    CreateGroup(config, group_id, arrival_time, departure_time,
                IF SingleAt(config, py) THEN 1
                ELSE config.group_multi_min
                         + (DrawAt(py + 1) % (config.group_multi_max
                                                  - config.group_multi_min + 1)),
                DrawAt(AfterSize(config, py)),
                DrawAt(AfterSize(config, py) + 1),
                DrawAt(AfterSize(config, py) + 2))

\* an engine with a seeded configuration and a one-slot schedule; the two
\* generators are in any state
InitReplay ==
    /\ \E seed \in 0..MaxSeed, pax \in 1..MaxSlotPax :
           engine = [pc |-> "constructed", run |-> 1,
                     config |-> [ReplayConfig EXCEPT !.capacity = OneEach]
                                    @@ [random_seed |-> seed],
                     demand_slots |-> <<SlotAt(MaxSlots, pax)>>,
                     results |-> <<>>]
    /\ \E np \in 0..MaxGeneratorState, py \in 0..MaxGeneratorState :
           random_state = [np |-> np, py |-> py]
    /\ arrival_gen = [pc |-> "unbuilt", slot |-> 1, remaining_pax |-> 0,
                      groups |-> <<>>, all_groups |-> <<>>,
                      generated |-> <<>>, next_group_id |-> 0]
    /\ arrival_dist = SamplerIdle
    /\ NoEnvironment

\* run() up to generate_all_arrivals: np.random.seed(random_seed), in run()
\* and again in TruncatedTDistribution.__init__; the random module is left
\* as it is
ReplaySeed ==
    /\ engine.pc = "constructed"
    /\ random_state' = [random_state EXCEPT !.np = SeedState(engine.config.random_seed)]
    /\ engine' = [engine EXCEPT !.pc = "generate"]
    /\ arrival_gen' = [pc |-> "loop", slot |-> 1,
                       remaining_pax |-> engine.demand_slots[1].pax_count,
                       groups |-> <<>>, all_groups |-> <<>>,
                       generated |-> <<>>, next_group_id |-> 0]
    /\ UNCHANGED <<kernel_vars, arrival_dist>>

\* one pass of the while loop of generate_arrivals_for_slot, on the two
\* generators: sample() draws its batch of two candidates from numpy's,
\* create_group draws from Python's
ReplayGroup ==
    /\ engine.pc = "generate" /\ arrival_gen.pc = "loop"
    /\ LoopContinues(arrival_gen)
    /\ LET min_before_departure == SampleOneAt(engine.config, random_state.np)
           group ==
               CreateGroupAt(engine.config, arrival_gen.next_group_id,
                             Seconds(ArrivalHalfMinutes(CurrentSlot,
                                                        min_before_departure)),
                             Seconds(DepartureHalfMinutes(CurrentSlot)),
                             random_state.py)
       IN  /\ arrival_gen' =
                  [arrival_gen EXCEPT
                       !.groups = Append(@, group),
                       !.remaining_pax = @ - group.group_size,
                       !.next_group_id = NextGroupId(@),
                       !.generated =
                           Append(@, [group |-> group, slot |-> 1,
                                      min_before_departure |->
                                          min_before_departure])]
           /\ random_state' =
                  [np |-> random_state.np + 2,
                   py |-> random_state.py
                              + DrawsTaken(engine.config, random_state.py)]
    /\ UNCHANGED <<kernel_vars, engine, arrival_dist>>

\* generate_all_arrivals returns the sorted list: the groups of this run
ReplayReturn ==
    /\ engine.pc = "generate" /\ arrival_gen.pc = "loop"
    /\ ~LoopContinues(arrival_gen)
    /\ arrival_gen' = [arrival_gen EXCEPT
                           !.pc = "returned",
                           !.all_groups = SortByArrival(arrival_gen.groups)]
    /\ engine' = [engine EXCEPT
                      !.pc = "generated",
                      !.results = Append(@, SortByArrival(arrival_gen.groups))]
    /\ UNCHANGED <<kernel_vars, arrival_dist, random_state>>

\* the second run, on the same configuration and schedule: in the same
\* interpreter the generators are where the first run left them, in a new
\* one the random module starts in an unrelated state
ReplayAgain ==
    /\ engine.pc = "generated" /\ engine.run = 1
    /\ engine' = [engine EXCEPT !.pc = "constructed", !.run = 2]
    /\ \E py \in {random_state.py} \cup 0..MaxGeneratorState :
           random_state' = [random_state EXCEPT !.py = py]
    /\ UNCHANGED <<kernel_vars, arrival_gen, arrival_dist>>

NextReplay ==
    \/ ReplaySeed
    \/ ReplayGroup
    \/ ReplayReturn
    \/ ReplayAgain

SpecReplay == InitReplay /\ [][NextReplay]_vars

\* ================================================================ properties
\* the groups of the log entries of operation op at station s, in log order
OpSeq(l, op, s) ==
    LET sel == SelectSeq(l, LAMBDA e : e.op = op /\ e.st = s)
    IN  [i \in DOMAIN sel |-> sel[i].g]

IsPrefix(a, b) == Len(a) <= Len(b) /\ SubSeq(b, 1, Len(a)) = a

\* C1: capacity invariant. At every station, in every reachable state and in
\* every snapshot of its queue_history, 0 <= in_service <= capacity.
C1_CapacityInvariant ==
    \A s \in Stations :
        /\ 0 <= Len(users[s]) /\ Len(users[s]) <= capacity[s]
        /\ \A i \in DOMAIN queue_history[s] :
               /\ 0 <= queue_history[s][i].in_service
               /\ queue_history[s][i].in_service <= capacity[s]

\* a station is full with a request waiting, and a snapshot recorded it full
C1_Witness ==
    \E s \in Stations :
        /\ Len(users[s]) = capacity[s]
        /\ put_queue[s] /= <<>>
        /\ \E i \in DOMAIN queue_history[s] :
               queue_history[s][i].in_service = capacity[s]

\* C2: FIFO fairness. At every station the requests are granted in the order
\* in which they were issued, whatever the group sizes, and the groups start
\* their service in that same order.
C2_FifoFairness ==
    \A s \in Stations :
        /\ IsPrefix(OpSeq(log, "grant", s), OpSeq(log, "request", s))
        /\ IsPrefix(OpSeq(log, "start", s), OpSeq(log, "grant", s))

\* a station of capacity 1 has served every group, two of which had to wait,
\* and the groups differ in size
C2_Witness ==
    \E s \in Stations :
        /\ capacity[s] = 1
        /\ Len(OpSeq(log, "start", s)) = NumGroups
        /\ Len(OpSeq(log, "enqueue", s)) >= 2
        /\ \E i, j \in G : groups[i].group_size /= groups[j].group_size

\* every group checks in at station s, of capacity 1, and arrives at instant 0
C3_Scenario(s, d) ==
    /\ capacity[s] = 1
    /\ \A i \in G : groups[i].arrival_time = 0 /\ groups[i].checkin_type /= "online"
                    /\ StationOf(groups[i], "checkin") = s

\* group i has finished its check-in service, which lasted d
C3_ServedFor(i, d) ==
    /\ groups[i].checkin_end /= NoTime
    /\ groups[i].checkin_end - groups[i].checkin_start = d

\* C3: end-to-end scenario. One check-in station of capacity 1, all groups
\* requesting it at instant 0 in spawn order, every service lasting d: the
\* k-th group starts at (k-1)*d and ends at k*d.
C3_EndToEnd ==
    \A s \in {"checkin_kiosk", "checkin_counter"}, d \in ServiceTimes :
        C3_Scenario(s, d) =>
            \A k \in G :
                /\ (groups[k].checkin_start /= NoTime
                    /\ \A j \in 1..(k - 1) : C3_ServedFor(j, d))
                   => groups[k].checkin_start = (k - 1) * d
                /\ (\A j \in 1..k : C3_ServedFor(j, d))
                   => groups[k].checkin_end = k * d

\* the scenario was played to its end with the longest service duration
C3_Witness ==
    \E s \in {"checkin_kiosk", "checkin_counter"} :
        /\ C3_Scenario(s, MaxService)
        /\ \A j \in G : C3_ServedFor(j, MaxService)
        /\ groups[NumGroups].checkin_start = (NumGroups - 1) * MaxService

\* position of the first log entry of operation op by group g, 0 if none
FirstPos(op, g) ==
    IF \E p \in DOMAIN log : log[p].op = op /\ log[p].g = g
    THEN CHOOSE p \in DOMAIN log :
             /\ log[p].op = op /\ log[p].g = g
             /\ \A q \in 1..(p - 1) : ~(log[q].op = op /\ log[q].g = g)
    ELSE 0

\* an event still pending although it was scheduled, for this very instant,
\* before the event just executed
Overtaken(e) == e.time = last_event.time /\ e.eid < last_event.eid

C4_ScheduleOrder == \A e \in queue : ~Overtaken(e)

C4_PriorityOrder == \A e \in queue : Overtaken(e) => last_event.prio < e.prio

\* groups with equal arrival_time start their processes in list order
C4_StartOrder ==
    \A i, j \in G :
        (i < j /\ groups[i].arrival_time = groups[j].arrival_time
         /\ FirstPos("begin", j) /= 0)
        => (FirstPos("begin", i) /= 0 /\ FirstPos("begin", i) < FirstPos("begin", j))

\* the mode of the group takes it to at least one station
VisitsStation(i) ==
    groups[i].checkin_type /= "online" \/ groups[i].baggage_drop_type /= "none"

\* j has issued its first request, and i none before it
RequestsOutOfOrder(i, j) ==
    /\ FirstPos("request", j) /= 0
    /\ FirstPos("request", i) = 0 \/ FirstPos("request", i) > FirstPos("request", j)

C4_FirstRequestOrderAll ==
    \A i, j \in G :
        (i < j /\ groups[i].arrival_time = groups[j].arrival_time
         /\ VisitsStation(i) /\ VisitsStation(j))
        => ~RequestsOutOfOrder(i, j)

\* C4 as stated: events of one instant execute in the order they were
\* scheduled, and groups with equal arrival_time start their processes and
\* issue their first station request in list order.
C4_AsStated ==
    /\ C4_ScheduleOrder
    /\ C4_StartOrder
    /\ C4_FirstRequestOrderAll

\* the group requests a check-in station as soon as its process starts
AtCheckinStation(i) == groups[i].checkin_type /= "online"

C4_FirstRequestOrderCheckin ==
    \A i, j \in G :
        (i < j /\ groups[i].arrival_time = groups[j].arrival_time
         /\ AtCheckinStation(i) /\ AtCheckinStation(j))
        => ~RequestsOutOfOrder(i, j)

\* C4 amended: events of one instant execute in order of priority, then of
\* scheduling (a process-start event is urgent and overtakes the normal events
\* of its instant); groups with equal arrival_time start their processes in
\* list order, and those checking in at a kiosk or counter issue their first
\* station request in that order.
C4_SameInstantOrder ==
    /\ C4_PriorityOrder
    /\ C4_StartOrder
    /\ C4_FirstRequestOrderCheckin

\* a process start has overtaken an earlier-scheduled event of its instant, and
\* two groups of equal arrival time have both issued their check-in request
C4_Witness ==
    /\ \E e \in queue : Overtaken(e) /\ last_event.prio < e.prio
    /\ \E i, j \in G :
           /\ i < j /\ groups[i].arrival_time = groups[j].arrival_time
           /\ AtCheckinStation(i) /\ AtCheckinStation(j)
           /\ FirstPos("request", j) /= 0

Ordered(h) == \A i \in 1..(Len(h) - 1) : h[i].time <= h[i + 1].time

C5_HistoriesOrdered ==
    /\ \A s \in Stations : Ordered(queue_history[s])
    /\ Ordered(area_occupancy_history)
    /\ Ordered(position_snapshots)

\* C5: the virtual clock never decreases, and the times of every station's
\* queue_history, of area_occupancy_history and of position_snapshots are
\* non-decreasing in append order.
C5_ClockMonotonic == [][now' >= now]_vars /\ []C5_HistoriesOrdered

\* the clock has advanced and each history spans more than one instant
C5_Witness ==
    /\ now > 0
    /\ \E s \in Stations :
           /\ Len(queue_history[s]) >= 2
           /\ queue_history[s][1].time < queue_history[s][Len(queue_history[s])].time
    /\ Len(area_occupancy_history) >= 2
    /\ area_occupancy_history[1].time
           < area_occupancy_history[Len(area_occupancy_history)].time
    /\ Len(position_snapshots) >= 2

StageOfStation(s) ==
    CASE s \in {"checkin_kiosk", "checkin_counter"} -> "checkin"
      [] s = "baggage_counter" -> "baggage_counter"
      [] s = "tag_kiosk" -> "tag"
      [] s = "drop_point" -> "drop"

\* the request logged at position p was granted within the call that issued
\* it: it never waited, in_service went up by one, and the group's service
\* starts at the instant it entered the queue
GrantedAtOnce(p) ==
    LET s == log[p].st
        g == log[p].g
        stg == StageOfStation(s)
    IN  /\ p + 1 \in DOMAIN log
        /\ log[p + 1].op = "grant" /\ log[p + 1].g = g /\ log[p + 1].st = s
        /\ log[p + 1].busy = log[p].busy + 1
        /\ \A q \in DOMAIN log : ~(log[q].op = "enqueue" /\ log[q].g = g /\ log[q].st = s)
        /\ groups[g][StartField[stg]] /= NoTime
           => groups[g][StartField[stg]] = groups[g][QueueEnterField[stg]]

\* C6 as stated: a request issued while in_service_count < capacity is granted
\* at once and never waits.
C6_AsStated ==
    \A p \in DOMAIN log :
        (log[p].op = "request" /\ log[p].busy < capacity[log[p].st])
        => GrantedAtOnce(p)

\* C6 amended: a request issued while in_service_count < capacity and no
\* earlier request is waiting is granted at once (service_start = queue_enter,
\* in_service_count incremented) and never appears in the wait queue.
C6_ImmediateGrant ==
    \A p \in DOMAIN log :
        (log[p].op = "request" /\ log[p].busy < capacity[log[p].st]
         /\ log[p].waiting = 0)
        => GrantedAtOnce(p)

\* a group asked a station with a free server next to a busy one, was granted
\* at once and has started its service
C6_Witness ==
    \E p \in DOMAIN log :
        /\ log[p].op = "request" /\ log[p].waiting = 0
        /\ log[p].busy >= 1 /\ log[p].busy < capacity[log[p].st]
        /\ groups[log[p].g][StartField[StageOfStation(log[p].st)]] /= NoTime
        /\ GrantedAtOnce(p)

\* every event of instant t has been processed
InstantOver(t) == stopped \/ \A e \in queue : e.time > t

Waited(g, s) == \E q \in DOMAIN log : log[q].op = "enqueue" /\ log[q].g = g /\ log[q].st = s

C7_HeadGranted ==
    /\ \A p \in DOMAIN log :
           (log[p].op = "release" /\ log[p].waiting > 0 /\ InstantOver(log[p].time))
           => \E q \in DOMAIN log :
                  /\ q > p /\ log[q].op = "grant"
                  /\ log[q].st = log[p].st /\ log[q].time = log[p].time
    /\ \A g \in G, s \in Stations :
           (Waited(g, s) /\ groups[g][StartField[StageOfStation(s)]] /= NoTime)
           => \E h \in G \ {g} :
                  /\ h \in Range(OpSeq(log, "release", s))
                  /\ groups[h][EndField[StageOfStation(s)]]
                         = groups[g][StartField[StageOfStation(s)]]

C7_Decrement ==
    \A s \in Stations :
        (\E p \in (Len(log) + 1)..Len(log') :
             log'[p].op = "release" /\ log'[p].st = s)
        => Len(users'[s]) = Len(users[s]) - 1

RECURSIVE SumGroupSizes(_)
SumGroupSizes(s) ==
    IF s = <<>> THEN 0 ELSE groups[Head(s)].group_size + SumGroupSizes(Tail(s))

\* the number of requests at station s that had to wait and were granted since
GrantedWaiters(s) ==
    Cardinality({g \in Range(OpSeq(log, "grant", s)) : Waited(g, s)})

\* C8: a request that cannot be granted at once joins the tail of the wait
\* queue, and queue_history receives a snapshot when the request is issued
\* and another when a waiting request is granted, besides the snapshot of
\* each release.
C8_AsStated ==
    \A s \in Stations :
        /\ IsPrefix(OpSeq(log, "grant", s), OpSeq(log, "request", s))
        /\ Len(queue_history[s]) =
               Len(OpSeq(log, "request", s)) + Len(OpSeq(log, "release", s))
               + GrantedWaiters(s)

\* C9: in every snapshot queue_pax_count is the sum of group_size over the
\* requests waiting at the station when the snapshot was taken.
C9_AsStated ==
    \A s \in Stations :
        \A i \in DOMAIN queue_history[s] :
            queue_history[s][i].queue_pax_count = SumGroupSizes(snap_waiting[s][i])

\* C10: whenever the clock rests, the last snapshot of a station's
\* queue_history gives the number of requests waiting and in service there.
C10_AsStated ==
    \A s \in Stations :
        (InstantOver(now) /\ queue_history[s] /= <<>>)
        => LET last == queue_history[s][Len(queue_history[s])]
           IN  /\ last.queue_length = Len(put_queue[s])
               /\ last.in_service = Len(users[s])

\* C11: for every group and every stage, in every reachable state: if
\* service_end is set then service_start is set and service_start <=
\* service_end, and if service_start is set then queue_enter is set and
\* queue_enter <= service_start.
C11_TimestampOrder ==
    \A g \in G, stg \in Stages :
        LET qe == groups[g][QueueEnterField[stg]]
            st == groups[g][StartField[stg]]
            en == groups[g][EndField[stg]]
        IN  /\ en /= NoTime => (st /= NoTime /\ st <= en)
            /\ st /= NoTime => (qe /= NoTime /\ qe <= st)

\* a group has finished a stage at which it waited before being served
C11_Witness ==
    \E g \in G, stg \in Stages :
        /\ groups[g][EndField[stg]] /= NoTime
        /\ groups[g][QueueEnterField[stg]] < groups[g][StartField[stg]]
        /\ groups[g][StartField[stg]] < groups[g][EndField[stg]]

\* the stations at which group g has a request waiting or in service
Holding(g) == {s \in Stations : g \in Range(users[s]) \cup Range(put_queue[s])}

\* between two requests of one group lies its release of the earlier station
C12_RequestAfterRelease ==
    \A p, q \in DOMAIN log :
        (p < q /\ log[p].op = "request" /\ log[q].op = "request"
         /\ log[p].g = log[q].g)
        => \E r \in (p + 1)..(q - 1) :
               log[r].op = "release" /\ log[r].g = log[p].g /\ log[r].st = log[p].st

\* the first stage of the baggage block of group g
FirstBaggageStage(g) ==
    IF groups[g].baggage_drop_type = "counter" THEN "baggage_counter" ELSE "tag"

C12_StageTimes ==
    \A g \in G :
        /\ groups[g].drop_queue_enter /= NoTime
           => /\ groups[g].tag_end /= NoTime
              /\ groups[g].tag_end <= groups[g].drop_queue_enter
        /\ (groups[g].checkin_type /= "online"
            /\ groups[g][QueueEnterField[FirstBaggageStage(g)]] /= NoTime)
           => /\ groups[g].checkin_end /= NoTime
              /\ groups[g].checkin_end
                     <= groups[g][QueueEnterField[FirstBaggageStage(g)]]

\* C12: a group's stages execute strictly sequentially. At every moment a
\* group has a request outstanding (waiting or in service) at no more than
\* one station; it issues the request of a stage only after it released the
\* station of the previous stage; tag_end <= drop_queue_enter for a
\* SelfService group, and checkin_end <= the queue_enter of the first baggage
\* stage.
C12_StagesSequential ==
    /\ \A g \in G : Cardinality(Holding(g)) <= 1
    /\ C12_RequestAfterRelease
    /\ C12_StageTimes

\* a SelfService group that checked in at the counter has gone on to the tag
\* kiosk and from there to the drop point, while a group that checked in at a
\* station holds the baggage counter
C12_Witness ==
    /\ \E g \in G : groups[g].baggage_drop_type = "self"
                    /\ groups[g].checkin_type = "counter"
                    /\ groups[g].drop_queue_enter /= NoTime
    /\ \E h \in G : /\ groups[h].checkin_type /= "online"
                    /\ groups[h].checkin_end /= NoTime
                    /\ Holding(h) = {"baggage_counter"}

\* the stations group g has requested so far, in the order of its requests
Visited(g) ==
    LET sel == SelectSeq(log, LAMBDA e : e.op = "request" /\ e.g = g)
    IN  [i \in DOMAIN sel |-> sel[i].st]

\* the stations at which group g has started a service, in order
Served(g) ==
    LET sel == SelectSeq(log, LAMBDA e : e.op = "start" /\ e.g = g)
    IN  [i \in DOMAIN sel |-> sel[i].st]

\* the stations the modes of group g dictate: check-in, then baggage
Route(g) ==
    (CASE groups[g].checkin_type = "kiosk" -> <<"checkin_kiosk">>
       [] groups[g].checkin_type = "counter" -> <<"checkin_counter">>
       [] groups[g].checkin_type = "online" -> <<>>)
    \o (CASE groups[g].baggage_drop_type = "counter" -> <<"baggage_counter">>
          [] groups[g].baggage_drop_type = "self" -> <<"tag_kiosk", "drop_point">>
          [] groups[g].baggage_drop_type = "none" -> <<>>)

\* C13: every group visits exactly the stations dictated by its modes, in
\* the order check-in, baggage, SecurityArrival: checkin_kiosk iff Kiosk,
\* checkin_counter iff Counter, none iff Online; baggage_counter once iff
\* CounterCombined, tag_kiosk then drop_point iff SelfService, none iff None.
\* The check-in counter is acquired for check-in only.
C13_RouteByModes ==
    \A g \in G :
        /\ IsPrefix(Visited(g), Route(g))
        /\ IsPrefix(Served(g), Visited(g))
        /\ pc[g].loc \in {"security", "done"}
           => (Visited(g) = Route(g) /\ Served(g) = Route(g))
        /\ pc[g].loc \in {"unborn", "spawned", "online"} => Visited(g) = <<>>
        /\ \A i \in DOMAIN Visited(g) :
               Visited(g)[i] = "checkin_counter"
               => (i = 1 /\ groups[g].checkin_type = "counter")

\* the groups have all reached SecurityArrival: one went through three
\* stations, one through the check-in kiosk and the baggage counter, one
\* through none
C13_Witness ==
    /\ \A g \in G : pc[g].loc = "done"
    /\ \E g \in G : Visited(g) = <<"checkin_counter", "tag_kiosk", "drop_point">>
    /\ \E g \in G : Visited(g) = <<"checkin_kiosk", "baggage_counter">>
    /\ \E g \in G : Visited(g) = <<>>

\* the instant at which the process of group g was started
SpawnTime(g) == log[FirstPos("begin", g)].time

\* the entries of zone a name the group_id of g
InZone(g, a) ==
    \E i \in DOMAIN groups_in_area[a] : groups_in_area[a][i][1] = groups[g].group_id

\* an Online group at check-in: no station request, no zone, no timestamp
C14_NoCheckinStation ==
    \A g \in G :
        groups[g].checkin_type = "online"
        => /\ \A p \in DOMAIN log :
                  (log[p].g = g /\ log[p].op \in {"request", "grant", "start"})
                  => log[p].st \notin {"checkin_kiosk", "checkin_counter"}
           /\ ~InZone(g, "checkin_zone")
           /\ pc[g].loc = "online" => \A a \in Areas : ~InZone(g, a)
           /\ groups[g].checkin_queue_enter = NoTime
           /\ groups[g].checkin_start = NoTime
           /\ groups[g].checkin_end = NoTime
           /\ groups[g].tag_queue_enter /= NoTime
              => groups[g].tag_queue_enter = SpawnTime(g) + OnlineDelay
           /\ groups[g].baggage_counter_queue_enter /= NoTime
              => groups[g].baggage_counter_queue_enter = SpawnTime(g) + OnlineDelay

\* an Online group leaves its transit delay exactly OnlineDelay after it was
\* spawned, for its first baggage stage or for the security gate
C14_LeavesAfterDelay ==
    \A g \in G :
        (pc[g].loc = "online" /\ pc'[g].loc /= "online")
        => /\ now' = SpawnTime(g) + OnlineDelay
           /\ SpawnTime(g) = groups[g].arrival_time
           /\ pc'[g] = CASE groups[g].baggage_drop_type = "counter" ->
                                [loc |-> "wait", stage |-> "baggage_counter"]
                         [] groups[g].baggage_drop_type = "self" ->
                                [loc |-> "wait", stage |-> "tag"]
                         [] OTHER -> [loc |-> "security", stage |-> ""]

\* C14: a group with checkin_mode Online acquires no station and enters no
\* zone for check-in, leaves its check-in queue_enter, service_start and
\* service_end unset, and proceeds to its baggage stage (or to
\* SecurityArrival) exactly one fixed transit delay (5 time units) after it
\* was spawned.
C14_OnlineCheckin == [][C14_LeavesAfterDelay]_vars /\ []C14_NoCheckinStation

\* an Online group spawned after instant 0 is at its tag kiosk stage, and
\* another Online group went straight to the security gate
C14_Witness ==
    /\ \E g \in G : /\ groups[g].checkin_type = "online"
                    /\ groups[g].arrival_time > 0
                    /\ groups[g].tag_queue_enter = groups[g].arrival_time + OnlineDelay
    /\ \E h \in G : /\ groups[h].checkin_type = "online"
                    /\ groups[h].baggage_drop_type = "none"
                    /\ pc[h].loc \in {"security", "done"}

\* the instant at which group g finished the last stage its modes dictate
LastStageEnd(g) ==
    CASE groups[g].baggage_drop_type = "counter" -> groups[g].baggage_counter_end
      [] groups[g].baggage_drop_type = "self" -> groups[g].drop_end
      [] groups[g].checkin_type /= "online" -> groups[g].checkin_end
      [] OTHER -> SpawnTime(g) + OnlineDelay

\* at the security gate: in the zone, its delay pending, not yet completed
C15_AtSecurity ==
    \A g \in G :
        pc[g].loc = "security"
        => /\ LastStageEnd(g) /= NoTime
           /\ InZone(g, "security_front")
           /\ groups[g].current_node = "security_gate"
           /\ groups[g].security_arrival = NoTime
           /\ g \notin Range(completed_groups)
           /\ \E e \in queue : /\ e.kind = "timeout_group" /\ e.proc = g
                               /\ e.time = LastStageEnd(g) + SecurityDelay

C15_Completed ==
    /\ Cardinality(Range(completed_groups)) = Len(completed_groups)
    /\ \A g \in G :
           /\ g \in Range(completed_groups) <=> pc[g].loc = "done"
           /\ g \in Range(completed_groups) <=> groups[g].security_arrival /= NoTime
           /\ g \in Range(completed_groups)
              => /\ groups[g].security_arrival = LastStageEnd(g) + SecurityDelay
                 /\ ~InZone(g, "security_front")

\* the step that ends the delay stamps the clock and appends the group
C15_Completion ==
    \A g \in G :
        (pc[g].loc = "security" /\ pc'[g].loc /= "security")
        => /\ pc'[g].loc = "done"
           /\ groups'[g].security_arrival = now'
           /\ completed_groups' = Append(completed_groups, g)

\* C15: SecurityArrival. After its last stage a group enters the
\* security_front zone, waits a fixed delay (10 time units), then sets
\* security_arrival to the current clock, leaves the zone and is appended to
\* completed_groups; each group is appended at most once and every group in
\* completed_groups has security_arrival set.
C15_SecurityArrival ==
    /\ [][C15_Completion]_vars
    /\ []C15_AtSecurity
    /\ []C15_Completed

\* every group has completed, one of them after a baggage stage, while at the
\* security gate one group was completed before another
C15_Witness ==
    /\ Len(completed_groups) = NumGroups
    /\ \E g \in G : groups[g].baggage_drop_type /= "none"
    /\ groups[completed_groups[1]].security_arrival
           < groups[completed_groups[NumGroups]].security_arrival

\* the zones whose membership names group g
ZonesOf(g) == {a \in Areas : InZone(g, a)}

\* the number of entries of zone a that name group g
Entries(g, a) ==
    Cardinality({i \in DOMAIN groups_in_area[a] :
                     groups_in_area[a][i][1] = groups[g].group_id})

C16_OneZone ==
    \A g \in G : /\ Cardinality(ZonesOf(g)) <= 1
                 /\ \A a \in Areas : Entries(g, a) <= 1

\* the enter_area and leave_area calls of a step on zone a: each appends one
\* record to area_occupancy_history
ZoneCalls(a) ==
    Len(SelectSeq(SubSeq(area_occupancy_history', Len(area_occupancy_history) + 1,
                         Len(area_occupancy_history')),
                  LAMBDA r : r.area_name = a))

\* every call on a zone toggles the membership of exactly one group: an enter
\* adds a group that was not a member, a leave removes one that was
C16_Toggle ==
    \A a \in Areas :
        /\ ZoneCalls(a) = Cardinality({g \in G : InZone(g, a) /= InZone(g, a)'})
        /\ Len(groups_in_area'[a]) - Len(groups_in_area[a]) \in {0 - ZoneCalls(a), ZoneCalls(a)}

\* C16: in every reachable state a group_id is a member of at most one zone,
\* and for each (zone, group_id) pair the enter and leave calls alternate
\* strictly, starting with enter.
C16_ZoneMembership == [][C16_Toggle]_vars /\ []C16_OneZone

\* a group has left one zone and is in the next while another group is in a
\* third zone
C16_Witness ==
    \E g, h \in G :
        /\ g /= h
        /\ ZonesOf(g) = {"drop_zone"}
        /\ ZonesOf(h) = {"security_front"}
        /\ Len(area_occupancy_history) >= 5

\* the occupancy records of zone a, in append order
ZoneHistory(a) == SelectSeq(area_occupancy_history, LAMBDA r : r.area_name = a)

\* group_count of the record before the i-th record of zone a
CountBefore(a, i) == IF i = 1 THEN 0 ELSE ZoneHistory(a)[i - 1].group_count

\* the enter_area calls on zone a: the records that raised its group_count
Enters(a) ==
    Cardinality({i \in DOMAIN ZoneHistory(a) :
                     ZoneHistory(a)[i].group_count > CountBefore(a, i)})

\* the leave_area calls on zone a: the records that did not raise it
Leaves(a) ==
    Cardinality({i \in DOMAIN ZoneHistory(a) :
                     ZoneHistory(a)[i].group_count <= CountBefore(a, i)})

C17_NeverNegative ==
    \A i \in DOMAIN area_occupancy_history :
        /\ area_occupancy_history[i].group_count >= 0
        /\ area_occupancy_history[i].pax_count >= 0

\* C17 as stated: when run() returns, for every zone the number of enter
\* calls equals the number of leave calls (every zone's membership is empty),
\* and no AreaOccupancy snapshot ever records a negative count.
C17_AsStated ==
    /\ stopped => \A a \in Areas : /\ Enters(a) = Leaves(a)
                                   /\ groups_in_area[a] = <<>>
    /\ C17_NeverNegative

\* the groups whose process is inside zone a
InsideZone(a) ==
    {g \in G : \/ pc[g].loc \in {"wait", "service"} /\ AreaOf(pc[g].stage) = a
               \/ pc[g].loc = "security" /\ a = "security_front"}

\* C17 amended: at every moment, and so when run() returns, the enter calls
\* of a zone exceed its leave calls by the zone's membership, which lists
\* exactly the groups whose process is inside the zone; at the return these
\* are the groups the horizon cut off there, and the zone is empty when there
\* is none. No AreaOccupancy snapshot records a negative group_count or
\* pax_count.
C17_OccupancyBalance ==
    /\ \A a \in Areas :
           /\ Enters(a) - Leaves(a) = Len(groups_in_area[a])
           /\ Len(groups_in_area[a]) = Cardinality(InsideZone(a))
           /\ \A g \in G : InZone(g, a) <=> g \in InsideZone(a)
    /\ C17_NeverNegative

\* the run has returned with one group completed, whose zones are balanced,
\* and another cut off inside a zone
C17_Witness ==
    /\ stopped
    /\ completed_groups /= <<>>
    /\ Enters("security_front") > Leaves("security_front")
    /\ Leaves("security_front") > 0
    /\ \E a \in Areas : InsideZone(a) /= {}

\* the horizon is the latest scheduled departure plus the buffer
C18_HorizonValue ==
    /\ \A g \in G : groups[g].departure_time + HorizonBuffer <= simulation_end
    /\ \E g \in G : groups[g].departure_time + HorizonBuffer = simulation_end

\* the clock stays below the horizon while the loop runs and rests on it at
\* the return, where it is read as simulation_duration_sec
C18_ClockAtReturn ==
    /\ ~stopped => now < simulation_end
    /\ stopped => now = simulation_end
    /\ last_event.kind /= "until" => last_event.time < simulation_end

\* C18: when at least one group is generated, the horizon equals the maximum
\* scheduled departure time over all generated groups plus the fixed buffer
\* (3600 s), the event loop stops at that horizon, and the result's total
\* elapsed virtual time (simulation_duration_sec) equals the horizon.
C18_HorizonStop ==
    /\ [][~stopped /\ (stopped' => now' = simulation_end)]_vars
    /\ []C18_HorizonValue
    /\ []C18_ClockAtReturn

\* the run has returned with events still scheduled beyond the horizon, and
\* the latest departure is not that of the last group of the list
C18_Witness ==
    /\ stopped
    /\ \E e \in queue : e.kind = "timeout_group" /\ e.time > simulation_end
    /\ groups[NumGroups].departure_time + HorizonBuffer < simulation_end

\* what completed_groups may hold, at every moment
C19_CompletedInTime ==
    /\ Range(completed_groups) \subseteq G
    /\ \A g \in G :
           /\ g \in Range(completed_groups)
              => /\ pc[g].loc = "done"
                 /\ groups[g].arrival_time <= groups[g].security_arrival
                 /\ groups[g].security_arrival < simulation_end
           /\ groups[g].arrival_time > simulation_end
              => (g \notin Range(completed_groups) /\ pc[g].loc = "unborn")
           /\ (stopped /\ pc[g].loc /= "done") => g \notin Range(completed_groups)

\* C19: horizon truncation. A group whose process has not reached its
\* terminal step by the horizon, and any group whose arrival_time exceeds the
\* horizon, never appears in completed_groups; run() returns a result whose
\* completed_groups is a subset of the generated groups, and nothing is
\* added to it once the horizon is reached.
C19_HorizonTruncation ==
    /\ [][stopped => completed_groups' = completed_groups]_vars
    /\ [][now' >= simulation_end => completed_groups' = completed_groups]_vars
    /\ []C19_CompletedInTime

\* the run has returned with a group completed, a group cut off in the
\* middle of its process and a group that was to arrive after the horizon
C19_Witness ==
    /\ stopped
    /\ completed_groups /= <<>>
    /\ \E g \in G : pc[g].loc \in {"online", "wait", "service", "security"}
    /\ \E g \in G : groups[g].arrival_time > simulation_end /\ pc[g].loc = "unborn"

\* the total group_size of the first k groups generated for the slot
RECURSIVE SizeOfFirst(_)
SizeOfFirst(k) ==
    IF k = 0 THEN 0 ELSE arrival_gen.groups[k].group_size + SizeOfFirst(k - 1)

SlotTotal == SizeOfFirst(Len(arrival_gen.groups))

\* no group is split: each group was created while the groups before it left
\* the demand unmet
C20_NoSplit ==
    \A k \in DOMAIN arrival_gen.groups : SizeOfFirst(k - 1) < arrival_gen.pax_count

LargestSize == IF arrival_gen.multi_max > 1 THEN arrival_gen.multi_max ELSE 1

TimeoutOf(q, g) == CHOOSE e \in q : e.kind = "timeout_group" /\ e.proc = g

\* the step sampled a service time: the group sleeps for the draw if the draw
\* is at or above the floor, for the floor otherwise
C26_FloorApplied ==
    last_draw'.proc /= 0
    => LET duration == TimeoutOf(queue', last_draw'.proc).time - now'
       IN  /\ pc'[last_draw'.proc].loc = "service"
           /\ duration >= MinTime
           /\ last_draw'.value < MinTime => duration = MinTime
           /\ last_draw'.value >= MinTime => duration = last_draw'.value

C26_ServiceDuration ==
    \A g \in G, stg \in Stages :
        /\ groups[g][EndField[stg]] /= NoTime
           => /\ groups[g][EndField[stg]] - groups[g][StartField[stg]] >= MinTime
              /\ groups[g][EndField[stg]] > groups[g][StartField[stg]]
        /\ (pc[g].loc = "service" /\ pc[g].stage = stg)
           => TimeoutOf(queue, g).time - groups[g][StartField[stg]] >= MinTime

\* C26: every sampled service duration is >= the floor (min_time, 1.0): a
\* normal draw below the floor is clamped up to it and a draw at or above it
\* is returned unchanged (no upper truncation); hence for every served stage
\* service_end > service_start.
C26_ServiceFloor == [][C26_FloorApplied]_vars /\ []C26_ServiceDuration

\* a group starts a service on a negative draw after another group was
\* served for longer than the floor
C26_Witness ==
    /\ last_draw.proc /= 0
    /\ last_draw.value < 0
    /\ TimeoutOf(queue, last_draw.proc).time = now + MinTime
    /\ \E h \in G, stg \in Stages :
           /\ groups[h][EndField[stg]] /= NoTime
           /\ groups[h][EndField[stg]] - groups[h][StartField[stg]] = MaxService

\* the process of group g has been started by the arrival process
Spawned(g) == pc[g].loc /= "unborn"

\* the groups are spawned in list order, a group of the same arrival time as
\* its predecessor within the same step
C24_SpawnOrder ==
    \A i, j \in G :
        i < j
        => /\ Spawned(j) => Spawned(i)
           /\ FirstPos("begin", j) /= 0
              => (FirstPos("begin", i) /= 0
                  /\ FirstPos("begin", i) < FirstPos("begin", j))
           /\ (Spawned(i) /\ groups[j].arrival_time = groups[i].arrival_time)
              => Spawned(j)

\* a group is spawned, and its process starts, at its arrival_time
C24_SpawnInstant ==
    \A g \in G :
        /\ pc[g].loc = "spawned" => now = groups[g].arrival_time
        /\ FirstPos("begin", g) /= 0 => SpawnTime(g) = groups[g].arrival_time
        /\ (FirstPos("begin", g) /= 0 /\ groups[g].checkin_type /= "online")
           => groups[g].checkin_queue_enter = groups[g].arrival_time
        /\ (stopped /\ groups[g].arrival_time < simulation_end) => Spawned(g)

\* the arrival process sleeps only for a positive gap, until the arrival time
\* of the next group of the list
C24_Sleep ==
    \A e \in queue :
        e.kind = "timeout_arrival"
        => /\ next_arrival \in G
           /\ ~Spawned(next_arrival)
           /\ e.time = groups[next_arrival].arrival_time
           /\ e.time > last_arrival_time
           /\ \A i \in 1..(next_arrival - 1) : Spawned(i)

Running == {g \in G : pc[g].loc \in {"online", "wait", "service", "security"}}

\* the sampler events scheduled
SamplerEvents == {e \in queue : e.kind \in {"init_sampler", "timeout_sampler"}}

\* one sampler process: at most one of its events is scheduled, the snapshots
\* are taken at 0, s, 2s and so on below the horizon, none is missing up to
\* the clock, and the next one is due one interval after the last
C30_Periodic ==
    /\ Cardinality(SamplerEvents) <= 1
    /\ \A e \in SamplerEvents :
           e.time = Len(position_snapshots) * SampleInterval
    /\ \A i \in DOMAIN position_snapshots :
           /\ position_snapshots[i].time = (i - 1) * SampleInterval
           /\ position_snapshots[i].time < simulation_end
    /\ Len(position_snapshots) * SampleInterval >= now
    /\ stopped => Len(position_snapshots) * SampleInterval >= simulation_end

\* a step that records a snapshot lists the running groups, each once, with
\* its size and last-known node, and changes nothing else of the groups, the
\* stations and the zones
C30_Snapshot ==
    position_snapshots' /= position_snapshots
    => LET snap == position_snapshots'[Len(position_snapshots')]
       IN  /\ position_snapshots' = Append(position_snapshots, snap)
           /\ snap.time = now'
           /\ Len(snap.groups) = Cardinality(Running)
           /\ \A g \in Running :
                  \E i \in DOMAIN snap.groups :
                      snap.groups[i] = [group_id |-> groups[g].group_id,
                                        group_size |-> groups[g].group_size,
                                        node |-> groups[g].current_node]
           /\ UNCHANGED <<groups, pc, users, put_queue, current_queue,
                          queue_history, groups_in_area, area_occupancy_history,
                          active_groups, completed_groups, next_arrival,
                          last_arrival_time, capacity>>

\* C30: the position probe is started exactly once per run and records one
\* PositionSnapshot at each virtual time 0, s, 2s, ... (s = sample_interval)
\* strictly below the horizon; each snapshot lists exactly the groups whose
\* process has started and has not yet completed at that moment, with their
\* last-known node, and the probe changes no group, station or zone state.
C30_PositionProbe == [][C30_Snapshot]_vars /\ []C30_Periodic

\* the run has returned; its last snapshot lists a group at a station or at
\* the security gate, and leaves out a group that had completed and a group
\* that was still to arrive
C30_Witness ==
    /\ stopped
    /\ Len(position_snapshots) >= 3
    /\ LET snap == position_snapshots[Len(position_snapshots)]
       IN  /\ \E i \in DOMAIN snap.groups : snap.groups[i].node /= "source"
           /\ \E g \in G :
                  /\ g \in Range(completed_groups)
                  /\ groups[g].security_arrival < snap.time
                  /\ \A i \in DOMAIN snap.groups :
                         snap.groups[i].group_id /= groups[g].group_id
           /\ \E g \in G : groups[g].arrival_time > snap.time

\* what the call returns: size values, all of them within the bounds
C25_Result ==
    arrival_dist.pc = "returned"
    => /\ Len(arrival_dist.result) = arrival_dist.size
       /\ \A i \in DOMAIN arrival_dist.result :
              /\ arrival_dist.result[i] >= arrival_dist.lower
              /\ arrival_dist.result[i] <= arrival_dist.upper
       /\ arrival_dist.result = Take(arrival_dist.samples, arrival_dist.size)
       /\ arrival_dist.call = "sample_one" => Len(arrival_dist.result) = 1

\* the samples kept are within the bounds, a batch is never started on a
\* spent budget, and the fallback fills exactly what is missing
C25_Budget ==
    /\ \A i \in DOMAIN arrival_dist.samples :
           /\ arrival_dist.samples[i] >= arrival_dist.lower
           /\ arrival_dist.samples[i] <= arrival_dist.upper
    /\ arrival_dist.attempts
           < arrival_dist.size * AttemptFactor + 2 * arrival_dist.size
       \/ arrival_dist.size = 0
    /\ arrival_dist.size = 1 => arrival_dist.attempts <= AttemptFactor
    /\ arrival_dist.filled > 0
       => /\ arrival_dist.attempts >= arrival_dist.size * AttemptFactor
          /\ Len(arrival_dist.samples) = arrival_dist.size

\* a step that draws a batch does so within the budget and for missing values
C25_BatchWithinBudget ==
    arrival_dist'.attempts /= arrival_dist.attempts
    => /\ arrival_dist.attempts < arrival_dist.size * AttemptFactor
       /\ Len(arrival_dist.samples) < arrival_dist.size
       /\ arrival_dist'.attempts
              = arrival_dist.attempts
                + 2 * (arrival_dist.size - Len(arrival_dist.samples))

AllDegenerate ==
    \A k \in 1..Len(engine.demand_slots) : engine.demand_slots[k].pax_count <= 0

\* the for loop of generate_all_arrivals stands at a degenerate slot
AtDegenerateSlot ==
    /\ engine.pc = "generate" /\ arrival_gen.pc = "slots"
    /\ arrival_gen.slot <= Len(engine.demand_slots)
    /\ CurrentSlot.pax_count <= 0

\* passing a degenerate slot adds no group and raises nothing
C21_SlotPassed ==
    AtDegenerateSlot =>
        /\ arrival_gen'.all_groups = arrival_gen.all_groups
        /\ arrival_gen'.generated = arrival_gen.generated
        /\ arrival_gen'.next_group_id = arrival_gen.next_group_id
        /\ engine'.pc = "generate"
        /\ arrival_gen'.pc = "slots"

\* no generated group comes from a degenerate slot
C21_NoGroupOfDegenerate ==
    \A i \in 1..Len(arrival_gen.generated) :
        engine.demand_slots[arrival_gen.generated[i].slot].pax_count > 0

\* once generation has returned for an all-degenerate schedule, run() does
\* not raise and the clock stays at 0; what it returns is empty
C21_EmptyResult ==
    (AllDegenerate /\ arrival_gen.pc = "returned") =>
        /\ arrival_gen.all_groups = <<>>
        /\ now = 0
        /\ engine.pc \in {"generated", "returned"}
        /\ engine.pc = "returned" =>
               /\ engine.result.completed_groups = <<>>
               /\ engine.result.position_snapshots = <<>>
               /\ engine.result.area_occupancy_history = <<>>
               /\ engine.result.simulation_duration_sec = 0

\* C21: a slot with pax_count <= 0 contributes zero groups and raises no
\* error; when every slot is degenerate, or the schedule is empty, run()
\* returns a result with no completed groups and zero elapsed virtual time
C21_DegenerateDemand ==
    /\ [][C21_SlotPassed]_vars
    /\ []C21_NoGroupOfDegenerate
    /\ []C21_EmptyResult

\* run() has returned for a schedule of MaxSlots degenerate slots, one of
\* them with a negative pax_count
C21_Witness ==
    /\ engine.pc = "returned"
    /\ Len(engine.demand_slots) = MaxSlots
    /\ AllDegenerate
    /\ \E k \in 1..MaxSlots : engine.demand_slots[k].pax_count < 0

\* the slot a generated group was created for
SlotOf(r) == engine.demand_slots[r.slot]

\* C22: every group generated for a slot departs at the slot midpoint
\* (start + end) / 2 minutes and arrives at max(0, departure - X) minutes,
\* X the sampled minutes before departure, both stored in seconds; hence no
\* arrival_time is negative
C22_SlotTimes ==
    \A i \in 1..Len(arrival_gen.generated) :
        LET r == arrival_gen.generated[i]
            midpoint_sec == 30 * (SlotOf(r).start_minutes + SlotOf(r).end_minutes)
        IN  /\ r.group.departure_time = midpoint_sec
            /\ r.group.arrival_time =
                   IF midpoint_sec - 60 * r.min_before_departure > 0
                   THEN midpoint_sec - 60 * r.min_before_departure
                   ELSE 0
            /\ r.group.arrival_time >= 0
            /\ r.min_before_departure >= engine.config.arrival_range_min
            /\ r.min_before_departure <= engine.config.arrival_range_max

\* a group was generated whose sampled X exceeds the slot midpoint and was
\* clamped to arrival 0, after a group that arrives later than 0
C22_Witness ==
    \E i, j \in 1..Len(arrival_gen.generated) :
        /\ i < j
        /\ arrival_gen.generated[i].group.arrival_time > 0
        /\ 60 * arrival_gen.generated[j].min_before_departure
               > arrival_gen.generated[j].group.departure_time
        /\ arrival_gen.generated[j].group.arrival_time = 0

\* the list is in ascending order of arrival_time, groups of equal
\* arrival_time in the order of their creation (group ids count creations)
SortedStable(s) ==
    \A i, j \in 1..Len(s) :
        i < j => \/ s[i].arrival_time < s[j].arrival_time
                 \/ /\ s[i].arrival_time = s[j].arrival_time
                    /\ s[i].group_id < s[j].group_id

\* the list holds every generated group exactly once, and nothing else
PermutationOfGenerated(s) ==
    /\ Len(s) = Len(arrival_gen.generated)
    /\ \A i \in 1..Len(arrival_gen.generated) :
           \E j \in 1..Len(s) : s[j] = arrival_gen.generated[i].group
    /\ \A i, j \in 1..Len(s) : i /= j => s[i].group_id /= s[j].group_id

\* group ids rise with the order of generation: slot order, then creation
\* order within the slot
GenerationOrder ==
    \A i, j \in 1..Len(arrival_gen.generated) :
        i < j => /\ arrival_gen.generated[i].group.group_id
                        < arrival_gen.generated[j].group.group_id
                 /\ arrival_gen.generated[i].slot <= arrival_gen.generated[j].slot

\* C23: generate_all_arrivals returns the groups of all slots as one list in
\* ascending order of arrival_time, groups of equal arrival_time in their
\* generation order, and the list is a permutation of the generated groups
C23_SortedArrivals ==
    /\ GenerationOrder
    /\ arrival_gen.pc = "returned" =>
           /\ SortedStable(arrival_gen.all_groups)
           /\ PermutationOfGenerated(arrival_gen.all_groups)

\* a list was returned in which a group of the second slot precedes one of
\* the first, while two groups of different slots share an arrival_time
C23_Witness ==
    /\ arrival_gen.pc = "returned"
    /\ \E i, j \in 1..Len(arrival_gen.all_groups) :
           /\ i < j
           /\ arrival_gen.all_groups[i].group_id > arrival_gen.all_groups[j].group_id
    /\ \E i, j \in 1..Len(arrival_gen.generated) :
           /\ arrival_gen.generated[i].slot < arrival_gen.generated[j].slot
           /\ arrival_gen.generated[i].group.arrival_time
                  = arrival_gen.generated[j].group.arrival_time
           /\ arrival_gen.generated[i].group.arrival_time > 0

\* a probability of the configuration lies outside [0, 1] (in hundredths)
ProbabilityOutOfRange(config) ==
    \E p \in {config.p_online, config.p_kiosk, config.p_counter,
              config.p_baggage, config.p_baggage_counter, config.p_single} :
        p < 0 \/ p > 100

\* the configuration the documentation calls invalid
InvalidConfig(config) ==
    \/ ProbabilityOutOfRange(config)
    \/ SplitTotal(config) = 0
    \/ \E s \in Stations : config.capacity[s] <= 0

\* C28 as stated: an invalid configuration is rejected at construction time,
\* so no engine on which run can be called is ever built from it
C28_RejectedAtConstruction ==
    InvalidConfig(engine.config) => engine.pc = "new"

\* the configuration errors of a non-positive capacity and of a check-in
\* split that cannot be normalized
ConfigError(config) ==
    \/ \E s \in Stations : config.capacity[s] <= 0
    \/ SplitTotal(config) = 0

\* nothing of a simulation has happened: the clock is at 0, no event is
\* scheduled, no group is generated or spawned, no history has an entry
NothingSimulated ==
    /\ now = 0
    /\ queue = {}
    /\ arrival_gen.generated = <<>>
    /\ active_groups = <<>>
    /\ completed_groups = <<>>
    /\ \A s \in Stations : queue_history[s] = <<>>
    /\ area_occupancy_history = <<>>
    /\ position_snapshots = <<>>
    /\ log = <<>>

\* C29: a configuration error (non-positive capacity, non-normalizable
\* check-in split) reaches the caller of run() before any simulation time
\* advances: run() with such a configuration gets no further than raising,
\* and when it has raised the clock is 0, no group is spawned and no history
\* entry is recorded
C29_ErrorBeforeTime ==
    /\ ConfigError(engine.config) =>
           /\ engine.pc \in {"new", "constructed", "raised"}
           /\ NothingSimulated
    /\ engine.pc = "raised" =>
           /\ ConfigError(engine.config)
           /\ engine.error \in {"ValueError", "ZeroDivisionError"}
           /\ NothingSimulated

\* run() has raised the ZeroDivisionError of a split with a negative share
\* for a schedule with demand
C29_Witness ==
    /\ engine.pc = "raised"
    /\ engine.error = "ZeroDivisionError"
    /\ engine.config.p_kiosk < 0
    /\ \E k \in 1..Len(engine.demand_slots) : engine.demand_slots[k].pax_count > 0

\* both runs have generated their groups
Replayed == engine.pc = "generated" /\ engine.run = 2

\* C27 as stated: two runs with the same seed, the same configuration and the
\* same demand slots produce the same groups (sizes, check-in and baggage
\* modes, arrival times)
C27_DeterministicReplay ==
    Replayed => engine.results[1] = engine.results[2]

\* C31: within one run the i-th group created, in generation order across
\* all slots, has group_id i counted from 0, so that no two generated groups
\* share a group_id, in the generated groups and in the returned list alike
C31_GroupIds ==
    /\ \A i \in 1..Len(arrival_gen.generated) :
           arrival_gen.generated[i].group.group_id = i - 1
    /\ arrival_gen.next_group_id = Len(arrival_gen.generated)
    /\ \A i, j \in 1..Len(arrival_gen.generated) :
           i /= j => arrival_gen.generated[i].group.group_id
                         /= arrival_gen.generated[j].group.group_id
    /\ \A i, j \in 1..Len(arrival_gen.all_groups) :
           i /= j => arrival_gen.all_groups[i].group_id
                         /= arrival_gen.all_groups[j].group_id

\* the list of a two-slot schedule was returned with NumGroups groups, the
\* last created one from the second slot
C31_Witness ==
    /\ arrival_gen.pc = "returned"
    /\ Len(arrival_gen.all_groups) = NumGroups
    /\ arrival_gen.generated[1].slot = 1
    /\ arrival_gen.generated[NumGroups].slot = MaxSlots
    /\ arrival_gen.generated[NumGroups].group.group_id = NumGroups - 1

\* C32 as stated: every generated group has group_size >= 1, the size being
\* 1 or an integer of [multi_min, multi_max], for every configured multi_min,
\* multi_max and p_single
C32_GroupSize ==
    \A i \in 1..Len(arrival_gen.groups) :
        /\ arrival_gen.groups[i].group_size >= 1
        /\ \/ arrival_gen.groups[i].group_size = 1
           \/ arrival_gen.groups[i].group_size
                  \in arrival_gen.multi_min..arrival_gen.multi_max

\* C38 as stated: remaining_pax strictly decreases with each group created,
\* for every configured p_single, multi_min and multi_max, which is why the
\* loop of generate_arrivals_for_slot terminates
C38_StrictDecrease ==
    [][Len(arrival_gen'.groups) > Len(arrival_gen.groups)
           => arrival_gen'.remaining_pax < arrival_gen.remaining_pax]_vars

\* the group create_group returned last, with the draws it was made on
Created == arrival_gen.created

\* the shares the factory was given are probabilities, not all of them 0
SharesValid ==
    /\ engine.config.p_online >= 0
    /\ engine.config.p_kiosk >= 0
    /\ engine.config.p_counter >= 0
    /\ SplitTotal(engine.config) > 0

\* the check-in type is the one whose interval of [0, 1) holds the draw, the
\* intervals being as wide as the shares divided by their total
C33_Normalized ==
    (Created.made /\ SharesValid) =>
        /\ Created.group.checkin_type \in {"online", "kiosk", "counter"}
        /\ Created.group.checkin_type = "online"
               <=> Created.rand * SplitTotal(engine.config)
                       < 100 * engine.config.p_online
        /\ Created.group.checkin_type = "counter"
               <=> Created.rand * SplitTotal(engine.config)
                       >= 100 * (engine.config.p_online + engine.config.p_kiosk)
        /\ engine.config.p_online = 0 => Created.group.checkin_type /= "online"
        /\ engine.config.p_kiosk = 0 => Created.group.checkin_type /= "kiosk"
        /\ engine.config.p_counter = 0 => Created.group.checkin_type /= "counter"

\* the other probabilities are compared with the draws as configured
C33_AsGiven ==
    Created.made =>
        /\ Created.group.has_baggage <=> Created.rand_bag < engine.config.p_baggage
        /\ Created.group.group_size = 1
               <=> (\/ Created.rand_size < engine.config.p_single
                    \/ engine.config.group_multi_min = 1)
        /\ Created.group.baggage_drop_type = "counter"
               <=> /\ Created.group.has_baggage
                   /\ Created.rand_counter < engine.config.p_baggage_counter

\* C33: the check-in probabilities are normalized to sum to 1 before use, so
\* that every created group gets exactly one check-in mode with weights
\* proportional to the configured values; p_baggage, p_baggage_counter and
\* p_single are used as given; baggage_drop_type is none iff the group has no
\* baggage
C33_FactoryProbabilities ==
    /\ C33_Normalized
    /\ C33_AsGiven
    /\ Created.made =>
           (Created.group.baggage_drop_type = "none" <=> ~Created.group.has_baggage)

\* a group was created at the kiosk, with baggage for self-service drop, by a
\* factory whose shares add up to twice 100 and whose p_baggage exceeds 100
C33_Witness ==
    /\ Created.made
    /\ SplitTotal(engine.config) = 200
    /\ engine.config.p_baggage > 100
    /\ Created.rand = 50
    /\ Created.group.checkin_type = "kiosk"
    /\ Created.group.baggage_drop_type = "self"

\* the stations whose groups a zone holds
ZoneStations(a) ==
    CASE a = "checkin_zone" -> {"checkin_kiosk", "checkin_counter"}
      [] a = "baggage_counter_zone" -> {"baggage_counter"}
      [] a = "tag_zone" -> {"tag_kiosk"}
      [] a = "drop_zone" -> {"drop_point"}
      [] OTHER -> {}

\* the groups listed in zone a of the membership gia
MembersIn(gia, grps, a) ==
    {g \in G : \E i \in DOMAIN gia[a] : gia[a][i][1] = grps[g].group_id}

\* the groups waiting or in service at a station of zone a
AtStationsOf(a) ==
    {g \in G : \E s \in ZoneStations(a) :
                   g \in Range(users[s]) \cup Range(put_queue[s])}

\* the passengers of a set of groups
RECURSIVE PaxOf(_, _)
PaxOf(grps, S) ==
    IF S = {} THEN 0
    ELSE LET g == CHOOSE x \in S : TRUE
         IN  grps[g].group_size + PaxOf(grps, S \ {g})

\* the members of each station zone are the groups at its stations, each
\* listed once
C34_Membership ==
    \A a \in Areas \ {"security_front"} :
        /\ MembersIn(groups_in_area, groups, a) = AtStationsOf(a)
        /\ Len(groups_in_area[a]) = Cardinality(AtStationsOf(a))

\* the AreaOccupancy records a step appends carry the instant of the step,
\* and the last one for a zone carries the member count and the passengers
\* of the zone as the step leaves it
C34_Snapshot ==
    \A k \in (Len(area_occupancy_history) + 1)..Len(area_occupancy_history') :
        /\ area_occupancy_history'[k].time = now'
        /\ (\A j \in (k + 1)..Len(area_occupancy_history') :
                area_occupancy_history'[j].area_name
                    /= area_occupancy_history'[k].area_name)
           => /\ area_occupancy_history'[k].group_count
                     = Cardinality(MembersIn(groups_in_area', groups',
                                             area_occupancy_history'[k].area_name))
              /\ area_occupancy_history'[k].pax_count
                     = PaxOf(groups',
                             MembersIn(groups_in_area', groups',
                                       area_occupancy_history'[k].area_name))

\* C34: in every state between two steps of the scheduler, hence whenever the
\* clock rests, checkin_zone holds exactly the groups waiting or in service
\* at checkin_kiosk or checkin_counter, and baggage_counter_zone, tag_zone
\* and drop_zone exactly those at baggage_counter, tag_kiosk and drop_point;
\* each AreaOccupancy snapshot records the member count of its zone and the
\* sum of the members' group_size right after the enter or leave
C34_ZoneStation == [][C34_Snapshot]_vars /\ []C34_Membership

\* a group waits at the drop point while another is served there, both in
\* drop_zone, and a group is in checkin_zone at the same time
C34_Witness ==
    /\ put_queue["drop_point"] /= <<>>
    /\ users["drop_point"] /= <<>>
    /\ Len(groups_in_area["drop_zone"]) >= 2
    /\ groups_in_area["checkin_zone"] /= <<>>

\* no station has a waiting request and a free server
NoIdleServer ==
    \A s \in Stations : put_queue[s] /= <<>> => Len(users[s]) >= capacity[s]

\* C35: work conservation. Whenever the virtual clock advances from one
\* instant to the next, no station has a waiting request while its
\* in_service_count is below its capacity
C35_WorkConservation == [][now' > now => NoIdleServer]_vars

\* the clock is about to advance after instant 0 while a request waits at a
\* station of capacity MaxCapacity, all of whose servers are taken
C35_Witness ==
    /\ now > 0
    /\ ~stopped
    /\ queue /= {}
    /\ NextEvent.time > now
    /\ \E s \in Stations :
           /\ capacity[s] = MaxCapacity
           /\ put_queue[s] /= <<>>
           /\ Len(users[s]) = capacity[s]

\* group g, in service at a station, has a pending service timer
TimerPending(g) ==
    /\ pc[g].loc = "service"
    /\ \E e \in queue : e.kind = "timeout_group" /\ e.proc = g /\ e.time >= now

\* the request of group g was granted at this instant and the group is about
\* to resume and to start its timer
GrantPending(g, s) ==
    \E e \in queue : e.kind = "grant" /\ e.proc = g /\ e.st = s /\ e.time = now

\* a Release event of station s is to be processed at this instant
ReleasePending(s) ==
    \E e \in queue : e.kind = "release" /\ e.st = s /\ e.time = now

\* C36 as stated: in every reachable state in which some group is waiting at
\* a station, that station has capacity-many groups in service, each with a
\* pending finite service timer
C36_AsStated ==
    ~stopped =>
        \A s \in Stations :
            put_queue[s] /= <<>> =>
                /\ Len(users[s]) = capacity[s]
                /\ \A g \in Range(users[s]) : TimerPending(g)

\* a station with a waiting group is about to admit its head, or is full of
\* groups that are being served or about to be
C36_Served ==
    ~stopped =>
        \A s \in Stations :
            put_queue[s] /= <<>> =>
                \/ ReleasePending(s)
                \/ /\ Len(users[s]) = capacity[s]
                   /\ \A g \in Range(users[s]) :
                          TimerPending(g) \/ GrantPending(g, s)

\* every group is in completed_groups with its security_arrival stamped
AllCompleted ==
    \A g \in G : g \in Range(completed_groups) /\ groups[g].security_arrival /= NoTime

\* C36 amended: no deadlock before the horizon. In every reachable state in
\* which some group waits at a station, either a Release event of that
\* station is pending at the current instant, or the station has
\* capacity-many groups in service, each with a pending finite service timer
\* or a grant pending at the current instant; so, the horizon lying beyond
\* every service, every spawned group eventually reaches SecurityArrival and
\* is appended to completed_groups
C36_NoDeadlock == []C36_Served /\ <>AllCompleted

\* a group waits at a station of capacity MaxCapacity whose servers are all
\* taken by groups with running timers
C36_Witness ==
    /\ ~stopped
    /\ \E s \in Stations :
           /\ capacity[s] = MaxCapacity
           /\ put_queue[s] /= <<>>
           /\ Len(users[s]) = capacity[s]
           /\ \A g \in Range(users[s]) : TimerPending(g)

\* C37 as stated: for every configuration with which the event loop starts,
\* any sample_interval_sec >= 0 included, run() reaches the horizon after
\* finitely many events, because the periodic probe cannot keep the clock
\* from advancing: each snapshot is taken at a later instant than the one
\* before, so that finitely many of them precede the horizon
C37_ProbeAdvances ==
    \A i, j \in 1..Len(position_snapshots) :
        i < j => position_snapshots[i].time < position_snapshots[j].time

\* the Initialize event of the group's process is scheduled and not yet executed
InitPending(g) == \E e \in queue : e.kind = "init_group" /\ e.proc = g

\* C39 as stated: in every reachable state each spawned group is in exactly
\* one of the active-group set and completed_groups
C39_AsStated ==
    \A g \in G :
        Spawned(g) => (g \in Range(active_groups)) /= (g \in Range(completed_groups))

\* the active set holds the groups whose process has started and not ended,
\* completed_groups those whose process has ended, each once; a spawned group
\* is in neither only while its Initialize event is pending at the current
\* instant, and a group not spawned is in neither
C39_Sets ==
    /\ Range(active_groups) = Running
    /\ Range(completed_groups) = {g \in G : pc[g].loc = "done"}
    /\ Cardinality(Range(active_groups)) = Len(active_groups)
    /\ Cardinality(Range(completed_groups)) = Len(completed_groups)
    /\ Range(active_groups) \cap Range(completed_groups) = {}
    /\ \A g \in G :
           /\ ~Spawned(g) => g \notin Range(active_groups) \cup Range(completed_groups)
           /\ InitPending(g) <=> pc[g].loc = "spawned"
           /\ InitPending(g)
              => /\ g \notin Range(active_groups) \cup Range(completed_groups)
                 /\ \A e \in queue : e.kind = "init_group" /\ e.proc = g
                                     => e.time = now /\ now < simulation_end
           /\ Spawned(g) /\ ~InitPending(g)
              => (g \in Range(active_groups)) /= (g \in Range(completed_groups))
    /\ stopped => \A g \in G : ~InitPending(g)

\* a group leaves the active set in the step that appends it to
\* completed_groups, and in no other step; completed_groups only grows
C39_Handover ==
    /\ completed_groups' /= completed_groups
       => \E g \in Range(active_groups) :
              /\ completed_groups' = Append(completed_groups, g)
              /\ active_groups' = Remove(active_groups, g)
    /\ Range(active_groups) \ Range(active_groups') /= {}
       => completed_groups' /= completed_groups

\* C39: active/completed partition. Each group whose process has started is
\* in exactly one of the active-group set and completed_groups, never in
\* both; a spawned group is in neither only until its Initialize event, at
\* the instant of the spawn; a group leaves the active set in the scheduler
\* step that appends it to completed_groups; a group the horizon cut off
\* stays in the active set and out of completed_groups
C39_ActivePartition == [][C39_Handover]_vars /\ []C39_Sets

\* the run has returned with one group completed and another cut off by the
\* horizon, still in the active set
C39_Witness ==
    /\ stopped
    /\ completed_groups /= <<>>
    /\ \E g \in Range(active_groups) :
           /\ pc[g].loc \in {"wait", "service", "security"}
           /\ g \notin Range(completed_groups)

\* completed_groups in the order of completion, each entry completed after
\* its arrival and before the horizon
C40_Ordered ==
    /\ \A i, j \in DOMAIN completed_groups :
           i < j => groups[completed_groups[i]].security_arrival
                    <= groups[completed_groups[j]].security_arrival
    /\ \A i \in DOMAIN completed_groups :
           LET group == groups[completed_groups[i]]
           IN  /\ group.security_arrival /= NoTime
               /\ group.arrival_time <= group.security_arrival
               /\ group.security_arrival < simulation_end
               /\ group.security_arrival <= now

\* a group is appended at the instant stamped on it, and an event of a group
\* scheduled at the horizon or later is never executed
C40_Step ==
    /\ completed_groups' /= completed_groups
       => /\ Len(completed_groups') = Len(completed_groups) + 1
          /\ groups'[completed_groups'[Len(completed_groups')]].security_arrival = now'
          /\ now' < simulation_end
    /\ \A e \in queue :
           (e.kind /= "until" /\ e.time >= simulation_end) => e \in queue'

\* C40: completed_groups is ordered by completion: security_arrival is
\* non-decreasing along the list, every entry has arrival_time <=
\* security_arrival, and every entry's security_arrival is strictly less than
\* the horizon (an event scheduled exactly at the horizon is not executed)
C40_CompletionOrder == [][C40_Step]_vars /\ []C40_Ordered

\* the run has returned with two groups completed at different instants,
\* while the security delay of a third group was to end exactly at the horizon
C40_Witness ==
    /\ stopped
    /\ Len(completed_groups) >= 2
    /\ groups[completed_groups[1]].security_arrival
       < groups[completed_groups[2]].security_arrival
    /\ \E e \in queue :
           /\ e.kind = "timeout_group"
           /\ e.time = simulation_end
           /\ pc[e.proc].loc = "security"

====
